---------------------------- MODULE Spec2Model ----------------------------
(***************************************************************************)
(* Verification model of the synesthesia-web audio visualiser.             *)
(*                                                                         *)
(* The parts of the program that are modelled, each with its own           *)
(* specification over the shared variables:                                *)
(*   SpecBoids    stepBoids (src/visuals/Boids.ts)                         *)
(*   SpecSwarms   the swarm collection handled by drawSwarms               *)
(*   SpecPredict  the pure function predictNextMidi                        *)
(*   SpecLoop     the pitch / prediction part of the frame loop            *)
(*   SpecAcf      the pure function detectPitchACF                         *)
(*   SpecFlux     the flux / beat / bass drive part of the frame loop      *)
(*   SpecBpm      the pure function estimateBPM                            *)
(*   SpecKey      the pure function estimateKeyFromFFT                     *)
(*   SpecSparks   burstSparkles and stepSparkles                           *)
(*   SpecWake     the hook useWakeLock and the Screen Wake Lock platform   *)
(*   SpecMic      the mic control of VisualizerPro                         *)
(*   SpecHook     the hook useMicAnalyser: start() and stop()              *)
(*   SpecRaf      the frame loop of the classic Visualizer                 *)
(*                                                                         *)
(* Real numbers are quantised: positions and velocities are integers,      *)
(* weights are integers per FORCE_Q, results are truncated toward zero.    *)
(***************************************************************************)
EXTENDS Integers, Sequences, FiniteSets, TLC

VARIABLES
    boids,       \* Boid[] handed to stepBoids: records [x, y, vx, vy]
    swarms,      \* swarmsRef.current: records [id, life, alive]
    ampPrev,     \* ampPrevRef.current, in percent
    clapWait,    \* clapUntilRef.current - now (ms), -1 once elapsed
    debugOpen,   \* React state debugOpen (a dependency of the render effect)
    globalVIS,   \* whether the page has an object at globalThis.VIS
    timeMax,     \* amplitude of the audio captured for the last frame, in
                 \* percent
    history,     \* argument array of a predictNextMidi call
    horizon,     \* argument horizon of a predictNextMidi call
    ret,         \* value returned by the predictNextMidi call
    pc,          \* position of the predictNextMidi call: "call" or "done"
    midiHist,    \* midiHist.current
    predQueue,   \* predQueue.current
    r1,          \* detectPitchACF of timeRef's content; Null while unallocated
    r2,          \* simpleCepstrumPitch of fftRef's content; Null while unallocated
    vis,         \* VIS.pitchMidi, VIS.clarity, VIS.predictedMidi of the frame
    scored,      \* pred, the prediction the frame dequeued and scored, or Null
    errors,      \* errorMAE, errorCount and their Hz and cents counterparts
    capture,     \* what the capture source gave the frame: "absent" (no
                 \* analyser node), "fresh" data, or "stale" (nothing new)
    frames,      \* number of frames run since Init
    acfArgs,     \* arguments of a detectPitchACF call
    acfRet,      \* Null before the call returns, then Some(its PitchResult)
    magBuf,      \* fftRef.current in tenths of a dB; Null while unallocated
    fluxPrev,    \* fluxPrev.current: the previous power buffer, or Null
    fluxHist,    \* fluxHist.current: fractions, in tenths
    flux,        \* VIS.flux of the frame: a fraction, in tenths
    beat,        \* the frame's beat flag
    sinceBeat,   \* now - lastBeat.current when the frame started (ms, capped)
    beatAge,     \* now - lastBeat.current when the frame ended (ms, capped)
    fluxFrames,  \* number of frames run since Init
    bassEnergy,  \* VIS.bassEnergy, in tenths of a dB
    drive,       \* drive, the bassPush the frame hands to stepBoids, in
                 \* thousandths
    bpmArgs,     \* arguments of an estimateBPM call
    bpmRet,      \* Null before the call returns, then Some(its result)
    chroma,      \* bins, the 12-bin chroma histogram of an estimateKeyFromFFT call
    keyText,     \* Null before the call returns, then Some(<<name, mode>>)
    sparks,      \* the Sparkle[] pool: records [x, y, vx, vy, life]
    sparkArgs,   \* the pool as the last stepSparkles call found it, or Null
    sparkCalls,  \* number of burstSparkles / stepSparkles calls since Init
    wake,        \* useWakeLock: the document's visibility, the effect's
                 \* cancelled flag, sentinelRef, and the platform's requests
                 \* and sentinels
    mic,         \* mic control of VisualizerPro: the AudioContext and its
                 \* control messages, micActive, userForcedOffRef, the
                 \* stashed stream and the async calls in flight
    hook,        \* useMicAnalyser: streamRef, ctxRef / analyserRef, ready,
                 \* the streams obtained and the start() calls in flight
    raf          \* the classic Visualizer's frame loop: rafRef, the
                 \* animation-frame requests pending, the visibility

vars == <<boids, swarms, ampPrev, clapWait, debugOpen, globalVIS, timeMax,
          history, horizon, ret, pc, midiHist, predQueue, r1, r2, vis, scored,
          errors, capture, frames,
          acfArgs, acfRet, magBuf, fluxPrev, fluxHist, flux, beat, sinceBeat,
          beatAge, fluxFrames, bassEnergy, drive, bpmArgs, bpmRet, chroma,
          keyText, sparks, sparkArgs, sparkCalls, wake, mic, hook, raf>>

boidVars    == <<boids>>
swarmVars   == <<swarms, ampPrev, clapWait, debugOpen, globalVIS, timeMax>>
predictVars == <<history, horizon, ret, pc>>
loopVars    == <<midiHist, predQueue, r1, r2, vis, scored, errors, capture,
                 frames>>
acfVars     == <<acfArgs, acfRet>>
bpmVars     == <<bpmArgs, bpmRet>>
keyVars     == <<chroma, keyText>>
fluxVars    == <<magBuf, fluxPrev, fluxHist, flux, beat, sinceBeat, beatAge,
                 fluxFrames, bassEnergy, drive>>
sparkVars   == <<sparks, sparkArgs, sparkCalls>>
wakeVars    == <<wake>>
micVars     == <<mic>>
hookVars    == <<hook>>
rafVars     == <<raf>>
lateVars    == <<sparkVars, wakeVars, micVars, hookVars, rafVars>>

\* A nullable number: Null, or Some(v) holding the number v.
Null == <<>>

Some(v) == <<v>>

Val(o) == o[1]

\* Values of the variables a specification does not use.
IdleBoids   == boids = <<>>
IdleSwarms  == /\ swarms = <<>> /\ ampPrev = 0 /\ clapWait = -1
               /\ debugOpen = FALSE /\ globalVIS = FALSE /\ timeMax = 0
IdlePredict == history = <<>> /\ horizon = 1 /\ ret = Null /\ pc = "idle"
IdleLoop    == /\ midiHist = <<>> /\ predQueue = <<>> /\ r1 = Null /\ r2 = Null
               /\ vis = Null /\ scored = Null /\ errors = Null
               /\ capture = "absent" /\ frames = 0
IdleAcf     == acfArgs = Null /\ acfRet = Null
IdleFlux    == /\ magBuf = Null /\ fluxPrev = Null /\ fluxHist = <<>>
               /\ flux = Null /\ beat = FALSE /\ sinceBeat = 0 /\ beatAge = 0
               /\ fluxFrames = 0 /\ bassEnergy = 0 /\ drive = 0
IdleBpm     == bpmArgs = Null /\ bpmRet = Null
IdleKey     == chroma = Null /\ keyText = Null
IdleSparks  == sparks = <<>> /\ sparkArgs = Null /\ sparkCalls = 0
IdleWake    == wake = Null
IdleMic     == mic = Null
IdleHook    == hook = Null
IdleRaf     == raf = Null
IdleLate    == IdleSparks /\ IdleWake /\ IdleMic /\ IdleHook /\ IdleRaf
IdleRest    == IdleAcf /\ IdleFlux /\ IdleBpm /\ IdleKey /\ IdleLate
restVars    == <<acfVars, fluxVars, bpmVars, keyVars, lateVars>>
IdleCore    == /\ IdleBoids /\ IdleSwarms /\ IdlePredict /\ IdleLoop /\ IdleAcf
               /\ IdleFlux /\ IdleBpm /\ IdleKey
coreVars    == <<boidVars, swarmVars, predictVars, loopVars, acfVars, fluxVars,
                 bpmVars, keyVars>>

-----------------------------------------------------------------------------
(* Arithmetic helpers *)

Abs(a) == IF a < 0 THEN -a ELSE a

Min(a, b) == IF a <= b THEN a ELSE b

Max(a, b) == IF a >= b THEN a ELSE b

\* Division of reals followed by truncation toward zero (b > 0).
TDiv(a, b) == IF a >= 0 THEN a \div b ELSE -((-a) \div b)

RECURSIVE SumOver(_, _)
SumOver(f, S) ==
    IF S = {} THEN 0
    ELSE LET e == CHOOSE e \in S : TRUE IN f[e] + SumOver(f, S \ {e})

-----------------------------------------------------------------------------
(* Boids: src/src/visuals/Boids.ts *)

CanvasW == 4
CanvasH == 3
MaxSpeed == 2
Range == 2
BoidCount == 2

FORCE_Q == 100000
ALIGN_Q == 19000
COH_Q == 15000
SEP_Q == 2000
TARGET_Q == 80
BASS_Q == 2

\* The optional parameter target: given is FALSE when it is left out.
NoTarget == [given |-> FALSE, x |-> 0, y |-> 0]
Targets == {NoTarget,
            [given |-> TRUE, x |-> 2, y |-> 1],
            [given |-> TRUE, x |-> 2600, y |-> -2600],
            [given |-> TRUE, x |-> -1300, y |-> 1400]}
BassPushes == {0, 30000}

\* makeBoids: positions in [0,W) x [0,H), small start velocities.
StartBoid == [x : 0 .. CanvasW - 1, y : 0 .. CanvasH - 1,
              vx : -1 .. 1, vy : -1 .. 1]

\* Indices j # i with d2 < range*range.
Neighbours(bs, i) ==
    {j \in (DOMAIN bs) \ {i} :
        LET dx == bs[j].x - bs[i].x
            dy == bs[j].y - bs[i].y
        IN dx * dx + dy * dy < Range * Range}

\* Acceleration of boid i from its neighbours and the target, per FORCE_Q,
\* for one axis ("x" or "y"); vel names the matching velocity field.
Accel(bs, i, pos, vel, target) ==
    LET b  == bs[i]
        nb == Neighbours(bs, i)
        n  == Cardinality(nb)
        d2(j) == (bs[j].x - b.x) * (bs[j].x - b.x)
                 + (bs[j].y - b.y) * (bs[j].y - b.y)
        aSum == SumOver([j \in nb |-> bs[j][vel]], nb)
        cSum == SumOver([j \in nb |-> bs[j][pos]], nb)
        sSum == SumOver([j \in nb |->
                    IF d2(j) = 0 THEN 0
                    ELSE TDiv(-(bs[j][pos] - b[pos]) * FORCE_Q, d2(j))], nb)
        a == IF n > 0 THEN TDiv(aSum * ALIGN_Q, n) - b[vel] * ALIGN_Q ELSE 0
        c == IF n > 0 THEN TDiv(cSum * COH_Q, n) - b[pos] * COH_Q ELSE 0
        s == IF n > 0 THEN TDiv(sSum * SEP_Q, FORCE_Q) ELSE 0
        t == IF ~target.given THEN 0 ELSE (target[pos] - b[pos]) * TARGET_Q
    IN a + s + c + t

\* (b.x - W/2) * 0.00002 * bassPush, per FORCE_Q.
BassAccel(p, size, bassPush) == TDiv((2 * p - size) * BASS_Q * bassPush, 2)

\* trunc(|v| * maxSpeed / sqrt(s2)): the largest k with k*k*s2 <= (v*maxSpeed)^2.
ScaleToMax(v, s2) ==
    LET a == Abs(v) * MaxSpeed
        k == CHOOSE k \in 0 .. MaxSpeed :
                /\ k * k * s2 <= a * a
                /\ (k + 1) * (k + 1) * s2 > a * a
    IN IF v < 0 THEN -k ELSE k

\* "clamp speed": lines 72-76.
ClampSpeedNone(vx, vy) == [vx |-> vx, vy |-> vy]

ClampSpeed(vx, vy) ==
    LET s2 == vx * vx + vy * vy
    IN IF s2 > MaxSpeed * MaxSpeed
       THEN [vx |-> ScaleToMax(vx, s2), vy |-> ScaleToMax(vy, s2)]
       ELSE [vx |-> vx, vy |-> vy]

\* Lines 79-80: if (p<0) p+=size; if (p>size) p-=size.
Wrap(p, size) ==
    LET q == IF p < 0 THEN p + size ELSE p
    IN IF q > size THEN q - size ELSE q

\* The body of the outer loop for boid i, on the array as it is at that point.
StepOneBoid(bs, i, target, bassPush) ==
    LET b   == bs[i]
        vxQ == b.vx * FORCE_Q + Accel(bs, i, "x", "vx", target)
               + BassAccel(b.x, CanvasW, bassPush)
        vyQ == b.vy * FORCE_Q + Accel(bs, i, "y", "vy", target)
               + BassAccel(b.y, CanvasH, bassPush)
        v   == ClampSpeed(TDiv(vxQ, FORCE_Q), TDiv(vyQ, FORCE_Q))
    IN [x  |-> Wrap(b.x + v.vx, CanvasW),
        y  |-> Wrap(b.y + v.vy, CanvasH),
        vx |-> v.vx,
        vy |-> v.vy]

\* for (i = 0; i < boids.length; i++): each boid sees the boids before it
\* already moved.
RECURSIVE StepFrom(_, _, _, _)
StepFrom(bs, i, target, bassPush) ==
    IF i > Len(bs) THEN bs
    ELSE StepFrom([bs EXCEPT ![i] = StepOneBoid(bs, i, target, bassPush)],
                  i + 1, target, bassPush)

stepBoids(bs, target, bassPush) == StepFrom(bs, 1, target, bassPush)

InitBoids ==
    /\ boids \in [1 .. BoidCount -> StartBoid]
    /\ IdleSwarms /\ IdlePredict /\ IdleLoop /\ IdleRest

StepBoids ==
    /\ \E target \in Targets, bassPush \in BassPushes :
          boids' = stepBoids(boids, target, bassPush)
    /\ UNCHANGED <<swarmVars, predictVars, loopVars, restVars>>

NextBoids == StepBoids

SpecBoids == InitBoids /\ [][NextBoids]_vars

\* C1: after any number of stepBoids calls every boid satisfies
\* 0 <= x < W and 0 <= y < H (half-open toroidal wrap).
C1_InHalfOpenCanvas ==
    \A i \in DOMAIN boids :
        /\ 0 <= boids[i].x /\ boids[i].x < CanvasW
        /\ 0 <= boids[i].y /\ boids[i].y < CanvasH

\* What the code keeps instead: the closed range, the far edge included.
C1_InClosedCanvas ==
    \A i \in DOMAIN boids :
        /\ 0 <= boids[i].x /\ boids[i].x <= CanvasW
        /\ 0 <= boids[i].y /\ boids[i].y <= CanvasH

Speed2(b) == b.vx * b.vx + b.vy * b.vy

\* C2: after every stepBoids call every boid's speed is at most maxSpeed,
\* and its position was advanced by that clamped velocity (then wrapped).
C2_StepClamped ==
    \A i \in DOMAIN boids :
        /\ Speed2(boids'[i]) <= MaxSpeed * MaxSpeed
        /\ \E kx \in {-1, 0, 1}, ky \in {-1, 0, 1} :
              /\ boids'[i].x = boids[i].x + boids'[i].vx + kx * CanvasW
              /\ boids'[i].y = boids[i].y + boids'[i].vy + ky * CanvasH

C2_SpeedClamped == [][C2_StepClamped]_vars

\* A boid moves at exactly the speed cap (no start velocity does), and the
\* forces of a further step would take it beyond the cap without the clamp.
C2_Witness ==
    \E i \in DOMAIN boids :
        /\ Speed2(boids[i]) = MaxSpeed * MaxSpeed
        /\ \E target \in Targets :
              LET vxQ == boids[i].vx * FORCE_Q + Accel(boids, i, "x", "vx", target)
                  vyQ == boids[i].vy * FORCE_Q + Accel(boids, i, "y", "vy", target)
                  vx  == TDiv(vxQ, FORCE_Q)
                  vy  == TDiv(vyQ, FORCE_Q)
              IN vx * vx + vy * vy > MaxSpeed * MaxSpeed

-----------------------------------------------------------------------------
(* Swarm collection: src/src/components/VisualizerPro.tsx, drawSwarms *)

\* life is kept in steps of 1/LifeMax; 0 stands for "below the smallest step".
LifeMax == 2

LERP_PCT == 2
CLAP_COOLDOWN_MS == 20
CLAP_MIN == 40
CLAP_DELTA == 15
SWARM_MIN == 2
SWARM_BASE_MAX == 5
SWARM_CLAP_MAX == 6

\* dt between two frames (ms), and the amplitude of the audio captured for
\* the frame (percent).
FrameDts == {8, 17}
AmpLevels == {0, 45, 100}

\* initial = Math.floor(2 + Math.random() * 3)
SeedCounts == 2 .. 4

\* id stands for the identity of a Swarm object. Identities are handed out
\* in creation order; a re-run of the effect takes the other half of the
\* range, so that its objects differ from the ones it drops.
NextId(sw) == IF sw = <<>> THEN 1 ELSE sw[Len(sw)].id + 1

OtherBase(sw) ==
    IF sw # <<>> /\ sw[1].id <= SWARM_CLAP_MAX THEN SWARM_CLAP_MAX ELSE 0

\* spawnSwarm(): life 0, alive true.
spawnSwarm(id) == [id |-> id, life |-> 0, alive |-> TRUE]

\* swarmsRef.current = []; for (i < initial) push(spawnSwarm()).
Seeded(n, base) == [i \in 1 .. n |-> spawnSwarm(base + i)]

\* clamp01(lerp(a, b, 0.02)) on the life scale: a moves toward b by 2% of the
\* gap, rounded up to whole steps.
LerpLife(a, b) ==
    LET gap  == Abs(b - a)
        step == (gap * LERP_PCT + 99) \div 100
        v    == IF b >= a THEN a + step ELSE a - step
    IN Max(0, Min(LifeMax, v))

\* Lines 1761-1764: Math.max(0, Math.min(1, globalThis.VIS?.amplitude ?? 0)).
\* Without an object at globalThis.VIS the amplitude read is 0; with one, the
\* page keeps the captured amplitude in its amplitude field.
ReadAmplitude(present, level) == IF present THEN Max(0, Min(100, level)) ELSE 0

\* Lines 1774-1777.
IsClap(wait, amp) == wait < 0 /\ amp > CLAP_MIN /\ amp - ampPrev > CLAP_DELTA

\* Lines 1781-1797: the clap's spawn burst.
ClapSpawnUpTo7(sw, clap) ==
    IF clap /\ Len(sw) <= SWARM_CLAP_MAX THEN Append(sw, spawnSwarm(NextId(sw))) ELSE sw

ClapSpawn(sw, clap) ==
    IF clap /\ Len(sw) < SWARM_CLAP_MAX THEN Append(sw, spawnSwarm(NextId(sw))) ELSE sw

\* Lines 1822-1840: baseline spawn.
BaselineSpawn(sw, roll) ==
    IF Len(sw) < SWARM_MIN \/ (Len(sw) < SWARM_BASE_MAX /\ roll)
    THEN Append(sw, spawnSwarm(NextId(sw))) ELSE sw

\* A despawn that drops the swarm at once instead of marking it.
BaselineDespawnSplice(sw, roll, idx) ==
    IF Len(sw) > SWARM_MIN /\ roll
    THEN [i \in 1 .. Len(sw) - 1 |-> IF i < idx THEN sw[i] ELSE sw[i + 1]]
    ELSE sw

\* Lines 1841-1844: baseline despawn marks one swarm, picked at random.
BaselineDespawn(sw, roll, idx) ==
    IF Len(sw) > SWARM_MIN /\ roll
    THEN [sw EXCEPT ![idx].alive = FALSE]
    ELSE sw

\* Lines 1866-1871: every swarm's life is smoothed toward 1 or 0.
SmoothLife(sw) ==
    [i \in DOMAIN sw |->
        [sw[i] EXCEPT !.life = LerpLife(sw[i].life,
                                        IF sw[i].alive THEN LifeMax ELSE 0)]]

\* The module never assigns globalThis.VIS (its VIS object, line 1001, is a
\* module export); whether the page provides one is fixed before the
\* component mounts.
InitSwarms ==
    /\ \E n \in SeedCounts : swarms = Seeded(n, 0)
    /\ ampPrev = 0
    /\ clapWait = -1
    /\ debugOpen = FALSE
    /\ globalVIS \in BOOLEAN
    /\ timeMax = 0
    /\ IdleBoids /\ IdlePredict /\ IdleLoop /\ IdleRest

\* One frame's drawSwarms(); level is the amplitude of the audio captured
\* for the frame.
DrawSwarms ==
    /\ \E dt \in FrameDts, level \in AmpLevels, spawnRoll \in BOOLEAN,
          despawnRoll \in BOOLEAN :
          LET amp  == ReadAmplitude(globalVIS, level)
              wait == clapWait - dt
              clap == IsClap(wait, amp)
              s1   == ClapSpawn(swarms, clap)
              s2   == BaselineSpawn(s1, spawnRoll)
          IN \E idx \in (IF despawnRoll THEN DOMAIN s2 ELSE {1}) :
                /\ swarms' = SmoothLife(BaselineDespawn(s2, despawnRoll, idx))
                /\ ampPrev' = amp
                /\ clapWait' = IF clap THEN CLAP_COOLDOWN_MS ELSE Max(wait, -1)
                /\ timeMax' = level
    /\ UNCHANGED <<debugOpen, globalVIS, boidVars, predictVars, loopVars,
                   restVars>>

\* setDebugOpen(!debugOpen): the render effect is torn down and run again,
\* which empties swarmsRef and seeds it anew (lines 1381-1383).
ToggleDebug ==
    /\ debugOpen' = ~debugOpen
    /\ \E n \in SeedCounts : swarms' = Seeded(n, OtherBase(swarms))
    /\ UNCHANGED <<ampPrev, clapWait, globalVIS, timeMax, boidVars, predictVars,
                   loopVars, restVars>>

NextSwarms == DrawSwarms \/ ToggleDebug

SpecSwarms == InitSwarms /\ [][NextSwarms]_vars

\* The animation loop keeps running: requestAnimationFrame re-arms itself at
\* the top of every frame.
SpecSwarmsFair == SpecSwarms /\ WF_vars(DrawSwarms)

Kept(s) == \E j \in DOMAIN swarms' : swarms'[j].id = s.id

InCollection(id) == \E i \in DOMAIN swarms : swarms[i].id = id

IsDying(id) == \E i \in DOMAIN swarms : swarms[i].id = id /\ ~swarms[i].alive

\* C4: once a swarm has alive=false and the frame loop keeps running, the
\* swarm is eventually purged from the collection (stated for the swarm
\* object seeded first).
C4_DyingSwarmPurged == IsDying(1) ~> ~InCollection(1)

\* C5: the collection holds 2..6 swarms after every frame and after seeding,
\* and only a clap's spawn burst takes it above 5.
C5_CountInRange ==
    /\ Len(swarms) >= SWARM_MIN
    /\ Len(swarms) <= SWARM_CLAP_MAX

C5_OnlyClapExceedsFive ==
    (Len(swarms') > SWARM_BASE_MAX /\ Len(swarms') > Len(swarms))
        => (clapWait' = CLAP_COOLDOWN_MS /\ debugOpen' = debugOpen)

C5_SwarmCountBounded == [](C5_CountInRange) /\ [][C5_OnlyClapExceedsFive]_vars

\* Six swarms, the last one spawned by a clap.
C5_Witness == Len(swarms) = SWARM_CLAP_MAX /\ clapWait = CLAP_COOLDOWN_MS

\* C6: the number of swarms with alive=true never drops below 2.
C6_AtLeastTwoAlive ==
    Cardinality({i \in DOMAIN swarms : swarms[i].alive}) >= SWARM_MIN

\* C20: a clap is detected in every frame in which the amplitude of the
\* captured audio exceeds 0.4, its rise over the previous frame's amplitude
\* exceeds 0.15 and the cooldown since the last clap has elapsed; that frame
\* starts a new cooldown and spawns a swarm if fewer than 6 exist.
C20_ClapStep ==
    (/\ timeMax' > CLAP_MIN
     /\ timeMax' - timeMax > CLAP_DELTA
     /\ clapWait' \notin 0 .. CLAP_COOLDOWN_MS - 1)
        => /\ clapWait' = CLAP_COOLDOWN_MS
           /\ Len(swarms) < SWARM_CLAP_MAX => Len(swarms') > Len(swarms)

C20_ClapOnCapturedSpike == [][C20_ClapStep]_vars

-----------------------------------------------------------------------------
(* Note predictor: predictNextMidi, src/unnamed/part_004 lines 180-189 *)

MaxHistLen == 9

PREDICT_WINDOW == 8
PREDICT_MIN == 3

Notes == {60, 62, 64}
Horizons == {1, 2}

RECURSIVE SeqsUpTo(_, _)
SeqsUpTo(S, n) ==
    IF n = 0 THEN {<<>>}
    ELSE LET shorter == SeqsUpTo(S, n - 1)
         IN shorter \cup {Append(q, e) : q \in {r \in shorter : Len(r) = n - 1},
                                          e \in S}

\* history.splice(-8): takes the last notes out of the array.
TakeLastSplice(h) ==
    LET from == Max(1, Len(h) - PREDICT_WINDOW + 1)
    IN [xs |-> SubSeq(h, from, Len(h)), history |-> SubSeq(h, 1, from - 1)]

\* history.slice(-8): a copy of the last up to 8 notes; the array stays.
TakeLast(h) ==
    LET from == Max(1, Len(h) - PREDICT_WINDOW + 1)
    IN [xs |-> SubSeq(h, from, Len(h)), history |-> h]

\* for (i = 1; i < xs.length; i++) intervals.push(xs[i] - xs[i-1])
Intervals(xs) == [i \in 1 .. Len(xs) - 1 |-> xs[i + 1] - xs[i]]

\* intervals.sort((a, b) => a - b): ascending, by insertion.
RECURSIVE InsertSorted(_, _)
InsertSorted(q, v) ==
    IF q = <<>> THEN <<v>>
    ELSE IF v <= Head(q) THEN <<v>> \o q
    ELSE <<Head(q)>> \o InsertSorted(Tail(q), v)

RECURSIVE SortAsc(_)
SortAsc(q) == IF q = <<>> THEN <<>> ELSE InsertSorted(SortAsc(Tail(q)), Head(q))

\* The element below the middle of an even count.
MedianLowerMiddle(sorted) == sorted[((Len(sorted) - 1) \div 2) + 1]

\* intervals[Math.floor(intervals.length / 2)] || 0 (0-based index).
Median(sorted) ==
    LET m == sorted[(Len(sorted) \div 2) + 1]
    IN IF m = 0 THEN 0 ELSE m

\* The call's result: the value returned and the argument array afterwards.
predictNextMidi(h, hz) ==
    LET t  == TakeLast(h)
        xs == t.xs
    IN IF Len(xs) < PREDICT_MIN
       THEN [ret |-> Null, history |-> t.history]
       ELSE [ret |-> Some(xs[Len(xs)] + Median(SortAsc(Intervals(xs))) * hz),
             history |-> t.history]

InitPredict ==
    /\ history \in SeqsUpTo(Notes, MaxHistLen)
    /\ horizon \in Horizons
    /\ ret = Null
    /\ pc = "call"
    /\ IdleBoids /\ IdleSwarms /\ IdleLoop /\ IdleRest

PredictCall ==
    /\ pc = "call"
    /\ LET r == predictNextMidi(history, horizon)
       IN ret' = r.ret /\ history' = r.history
    /\ pc' = "done"
    /\ UNCHANGED <<horizon, boidVars, swarmVars, loopVars, restVars>>

NextPredict == PredictCall

SpecPredict == InitPredict /\ [][NextPredict]_vars

\* The consecutive differences of the last up to 8 notes of h.
C7_Diffs(h) ==
    LET from == IF Len(h) > PREDICT_WINDOW THEN Len(h) - PREDICT_WINDOW + 1 ELSE 1
    IN [i \in 1 .. Len(h) - from |-> h[from + i] - h[from + i - 1]]

\* The k-th smallest element of q, counted with repetitions.
C7_KthSmallest(q, k) ==
    CHOOSE v \in {q[i] : i \in DOMAIN q} :
        /\ Cardinality({i \in DOMAIN q : q[i] < v}) < k
        /\ Cardinality({i \in DOMAIN q : q[i] <= v}) >= k

C7_LowerMedian(q) == C7_KthSmallest(q, (Len(q) + 1) \div 2)

C7_UpperMedian(q) == C7_KthSmallest(q, (Len(q) \div 2) + 1)

\* C7 as claimed: for a history of at least 3 notes the result is
\* last + m*horizon with m the median of the differences of the last up to 8
\* notes, the lower-middle one when their number is even.
C7_LowerMiddleMedian ==
    (pc = "done" /\ Len(history) >= PREDICT_MIN) =>
        ret = Some(history[Len(history)]
                   + C7_LowerMedian(C7_Diffs(history)) * horizon)

\* C7 amended: m is the element at index floor(n/2) of the sorted differences,
\* which is the upper-middle one when their number n is even.
C7_UpperMiddleMedian ==
    (pc = "done" /\ Len(history) >= PREDICT_MIN) =>
        ret = Some(history[Len(history)]
                   + C7_UpperMedian(C7_Diffs(history)) * horizon)

\* A call on an even number of differences whose two middle ones differ.
C7_Witness ==
    /\ pc = "done" /\ Len(history) >= PREDICT_MIN
    /\ Len(C7_Diffs(history)) % 2 = 0
    /\ C7_LowerMedian(C7_Diffs(history)) # C7_UpperMedian(C7_Diffs(history))
    /\ ret = Some(history[Len(history)]
                   + C7_UpperMedian(C7_Diffs(history)) * horizon)

\* C8: the call returns null exactly when the history holds fewer than 3
\* notes, a number otherwise, and leaves the history array as it was.
C8_CallResult ==
    pc = "call" =>
        /\ (ret' = Null) <=> (Len(history) < PREDICT_MIN)
        /\ ret' # Null => (Len(ret') = 1 /\ Val(ret') \in Int)
        /\ history' = history

C8_NullIffShort == [][C8_CallResult]_vars

\* The call on the two-note history [60,62] has returned null.
C8_Witness == pc = "done" /\ history = <<60, 62>> /\ ret = Null

-----------------------------------------------------------------------------
(* Frame loop, pitch and prediction:                                       *)
(* src/src/components/VisualizerPro.tsx lines 1403-1503                    *)

MaxFrames == 4

HIST_CAP == 128
CLARITY_MIN == 3

\* midiToFreq for the notes 55 .. 70, in whole Hz.
FreqTable == <<196, 208, 220, 233, 247, 262, 277, 294,
               311, 330, 349, 370, 392, 415, 440, 466>>

midiToFreq(m) == FreqTable[m - 54]

\* freqToMidi, on the frequencies of the table.
freqToMidi(f) == CHOOSE m \in 55 .. 70 : midiToFreq(m) = f

NOTE_NAMES == <<"C", "C#", "D", "D#", "E", "F", "F#", "G", "G#", "A", "A#", "B">>

\* midiToNoteName: the name and the octave.
midiToNoteName(m) == <<NOTE_NAMES[(m % 12) + 1], (m \div 12) - 1>>

\* A PitchResult; the clarity in tenths.
NoPitch == [frequency |-> Null, midi |-> Null, note |-> Null, clarity |-> 0]

Pitch(m, c) == [frequency |-> Some(midiToFreq(m)), midi |-> Some(m),
                note |-> Some(midiToNoteName(m)), clarity |-> c]

\* What the two estimators can return for a frame's fresh buffers.
AcfResults == {NoPitch, Pitch(60, 3), Pitch(60, 8), Pitch(62, 8), Pitch(64, 8)}
CepResults == {NoPitch, Pitch(65, 8)}

\* A fusion in which a tie goes to the cepstrum estimate.
FuseStrict(a, b) == IF a.clarity > b.clarity THEN a ELSE b

\* Line 1450: best = r1.clarity >= r2.clarity ? r1 : r2
Fuse(a, b) == IF a.clarity >= b.clarity THEN a ELSE b

\* Lines 1443-1454: the frame's fused estimate from the buffers' estimates;
\* without a time-domain buffer the pitch stays null and the clarity 0.
FrameEstimate(t, m) ==
    IF t = Null THEN NoPitch
    ELSE Fuse(Val(t), IF m # Null THEN Val(m) ELSE NoPitch)

\* Line 1456: if (pitchMidi && clarity > 0.3)
Accepted(est) ==
    est.midi # Null /\ Val(est.midi) # 0 /\ est.clarity > CLARITY_MIN

\* A push that never evicts.
PushHistUnbounded(h, m) == Append(h, m)

\* Lines 1457-1458: push, then shift when longer than 128.
PushHist(h, m) ==
    LET h2 == Append(h, m)
    IN IF Len(h2) > HIST_CAP THEN Tail(h2) ELSE h2

\* A dequeue from the wrong end: pop() in place of shift().
DequeuePop(q, acc) ==
    IF acc /\ q # <<>>
    THEN [pred |-> Some(q[Len(q)]), queue |-> SubSeq(q, 1, Len(q) - 1)]
    ELSE [pred |-> Null, queue |-> q]

\* Lines 1459-1460: if (predQueue.length) pred = predQueue.shift()
Dequeue(q, acc) ==
    IF acc /\ q # <<>>
    THEN [pred |-> Some(Head(q)), queue |-> Tail(q)]
    ELSE [pred |-> Null, queue |-> q]

\* An enqueue that keeps a single pending prediction.
EnqueueIfEmpty(q, predicted) ==
    IF predicted # Null /\ q = <<>> THEN Append(q, Val(predicted)) ELSE q

\* Lines 1501-1502: if (predicted != null) predQueue.push(predicted)
Enqueue(q, predicted) ==
    IF predicted # Null THEN Append(q, Val(predicted)) ELSE q

\* A mean is an exact fraction [n, d] in lowest terms, d > 0.
RECURSIVE GCD(_, _)
GCD(a, b) == IF b = 0 THEN a ELSE GCD(b, a % b)

Frac(n, d) == LET g == GCD(n, d) IN [n |-> n \div g, d |-> d \div g]

\* An exponential average in place of the running mean.
FeedHalf(mae, count, err) == Frac(mae.n + err * mae.d, 2 * mae.d)

\* Lines 1463-1465: mae = (mae * count + err) / (count + 1)
Feed(mae, count, err) ==
    Frac(mae.n * count + err * mae.d, mae.d * (count + 1))

\* Line 1478: |1200 * log2(pitchHz / predHz)|, 100 per semitone.
ErrCents(pitchHz, predHz) == 100 * Abs(freqToMidi(pitchHz) - freqToMidi(predHz))

\* Lines 1149-1155: the accumulators at construction.
NoErrors ==
    [errorMAE |-> Frac(0, 1), errorCount |-> 0,
     errorMAEHz |-> Frac(0, 1), errorCountHz |-> 0,
     errorMAECents |-> Frac(0, 1), errorCountCents |-> 0]

\* Lines 1461-1482: score the dequeued prediction pred against the estimate.
Score(errs, pred, est) ==
    IF pred = Null THEN errs
    ELSE
      LET errSemi == Abs(Val(pred) - Val(est.midi))
          semi == [errs EXCEPT
                     !.errorMAE = Feed(@, errs.errorCount, errSemi),
                     !.errorCount = @ + 1]
          predHz == midiToFreq(Val(pred))
      IN IF est.frequency = Null \/ Val(est.frequency) = 0 THEN semi
         ELSE
           LET pitchHz == Val(est.frequency)
               errHz == Abs(predHz - pitchHz)
               errCents == ErrCents(pitchHz, predHz)
           IN [semi EXCEPT
                 !.errorMAEHz = Feed(@, errs.errorCountHz, errHz),
                 !.errorCountHz = @ + 1,
                 !.errorMAECents = Feed(@, errs.errorCountCents, errCents),
                 !.errorCountCents = @ + 1]

\* Lines 1496-1503: what the frame mirrors into VIS.
Mirror(est, predicted) ==
    [pitchHz |-> est.frequency, pitchMidi |-> est.midi, pitchNote |-> est.note,
     clarity |-> est.clarity, predictedMidi |-> predicted]

\* What the capture source can give a frame.  analyser.node() is null until
\* the microphone is first started and a node ever after (part_004 lines
\* 30-46 and 63-71), and the buffers are allocated by the first frame that
\* sees the node: the node is absent only while there are no buffers.  Once
\* the stream is stopped and the context suspended, the node hands out the
\* data it handed out before.
Captures(t) == IF t = Null THEN {"absent", "fresh"} ELSE {"fresh", "stale"}

\* One run of loop() on the state s: src is what the capture source gives,
\* e1 and e2 are the estimates of the buffers when the data is fresh.
FrameResult(s, src, e1, e2) ==
    LET t    == IF src = "fresh" THEN Some(e1) ELSE s.r1
        m    == IF src = "fresh" THEN Some(e2) ELSE s.r2
        est  == FrameEstimate(t, m)
        acc  == Accepted(est)
        h    == IF acc THEN PushHist(s.midiHist, Val(est.midi)) ELSE s.midiHist
        d    == Dequeue(s.predQueue, acc)
        predicted == predictNextMidi(h, 1).ret
    IN [midiHist |-> h, predQueue |-> Enqueue(d.queue, predicted),
        r1 |-> t, r2 |-> m, vis |-> Mirror(est, predicted),
        scored |-> d.pred, errors |-> Score(s.errors, d.pred, est)]

\* Lines 1135-1155 and 1001-1037: the state after construction.
Cold ==
    [midiHist |-> <<>>, predQueue |-> <<>>, r1 |-> Null, r2 |-> Null,
     vis |-> Mirror(NoPitch, Null), scored |-> Null, errors |-> NoErrors]

\* The notes accepted so far in a session that has run n frames, each of
\* which accepted a pitch: 60, 62, 64, 60, ...
WarmHist(n) == [i \in 1 .. n |-> 60 + 2 * ((i - 1) % 3)]

WarmLens == {0, 2, HIST_CAP - 1, HIST_CAP}

\* The estimate of the n-th such frame and the prediction made after it.
WarmPitch(n) == Pitch(WarmHist(n)[n], 8)

WarmPredicted(n) == predictNextMidi(WarmHist(n), 1).ret

\* The samples the n-th such frame feeds to the accumulators (n > 3: the
\* prediction of frame n - 1 is scored against the estimate of frame n).
WarmErr(n) ==
    LET pred == Val(WarmPredicted(n - 1))
        est  == WarmPitch(n)
    IN [semi  |-> Abs(pred - Val(est.midi)),
        hz    |-> Abs(midiToFreq(pred) - Val(est.frequency)),
        cents |-> ErrCents(Val(est.frequency), midiToFreq(pred))]

RECURSIVE SumRange(_, _, _)
SumRange(f, a, b) ==
    IF a > b THEN 0
    ELSE IF a = b THEN f[a]
    ELSE LET mid == (a + b) \div 2
         IN SumRange(f, a, mid) + SumRange(f, mid + 1, b)

\* The accumulators after n such frames: the running means of the samples.
WarmErrors(n) ==
    IF n <= PREDICT_MIN THEN NoErrors
    ELSE
      LET first == PREDICT_MIN + 1
          count == n - PREDICT_MIN
          e == [k \in first .. n |-> WarmErr(k)]
      IN [errorMAE |-> Frac(SumRange([k \in first .. n |-> e[k].semi], first, n), count),
          errorCount |-> count,
          errorMAEHz |-> Frac(SumRange([k \in first .. n |-> e[k].hz], first, n), count),
          errorCountHz |-> count,
          errorMAECents |-> Frac(SumRange([k \in first .. n |-> e[k].cents], first, n), count),
          errorCountCents |-> count]

\* The state after n such frames (n = 0: after construction).
WarmState(n) ==
    IF n = 0 THEN Cold
    ELSE
      LET pred == IF n < PREDICT_MIN THEN Null ELSE WarmPredicted(n)
          prev == IF n <= PREDICT_MIN THEN Null ELSE WarmPredicted(n - 1)
      IN [midiHist |-> WarmHist(n), predQueue |-> Enqueue(<<>>, pred),
          r1 |-> Some(WarmPitch(n)), r2 |-> Some(NoPitch),
          vis |-> Mirror(WarmPitch(n), pred), scored |-> prev,
          errors |-> WarmErrors(n)]

Warm(n) ==
    LET s == WarmState(n)
    IN /\ midiHist = s.midiHist
       /\ predQueue = s.predQueue
       /\ r1 = s.r1
       /\ r2 = s.r2
       /\ vis = s.vis
       /\ scored = s.scored
       /\ errors = s.errors
       /\ capture = IF n = 0 THEN "absent" ELSE "fresh"

InitLoop ==
    /\ \E n \in WarmLens : Warm(n)
    /\ frames = 0
    /\ IdleBoids /\ IdleSwarms /\ IdlePredict /\ IdleRest

Frame ==
    /\ frames < MaxFrames
    /\ \E src \in Captures(r1), e1 \in AcfResults, e2 \in CepResults :
          LET s == FrameResult([midiHist |-> midiHist, predQueue |-> predQueue,
                                r1 |-> r1, r2 |-> r2, vis |-> vis,
                                scored |-> scored, errors |-> errors],
                               src, e1, e2)
          IN /\ capture' = src
             /\ r1' = s.r1
             /\ r2' = s.r2
             /\ midiHist' = s.midiHist
             /\ scored' = s.scored
             /\ predQueue' = s.predQueue
             /\ vis' = s.vis
             /\ errors' = s.errors
    /\ frames' = frames + 1
    /\ UNCHANGED <<boidVars, swarmVars, predictVars, restVars>>

NextLoop == Frame

SpecLoop == InitLoop /\ [][NextLoop]_vars

\* The frame that led to the primed state accepted a pitch.
FrameAccepted ==
    /\ vis'.pitchMidi # Null
    /\ vis'.clarity > CLARITY_MIN

\* C9: NoteHistory never holds more than 128 entries; a frame appends at most
\* one entry, only when its fused estimate has a pitch and a confidence above
\* 0.3, and evicts the oldest entry when the capacity is exceeded.
C9_HistStep ==
    \/ midiHist' = midiHist
    \/ /\ FrameAccepted
       /\ LET m == Val(vis'.pitchMidi)
          IN IF Len(midiHist) < HIST_CAP
             THEN midiHist' = Append(midiHist, m)
             ELSE midiHist' = Append(Tail(midiHist), m)

C9_NoteHistoryBounded == [](Len(midiHist) <= HIST_CAP) /\ [][C9_HistStep]_vars

\* A full history whose oldest warm-up note has been evicted.
C9_Witness ==
    /\ Len(midiHist) = HIST_CAP
    /\ frames > 0
    /\ midiHist[1] # WarmHist(1)[1]
    /\ midiHist[HIST_CAP] = Val(vis.pitchMidi)

\* C10: a frame enqueues at most one prediction (its own, when there is one)
\* and dequeues at most one (when it accepted a pitch and one was pending);
\* the one dequeued is the oldest pending, taken before the frame's enqueue.
C10_QueueStep ==
    LET deq  == FrameAccepted /\ predQueue # <<>>
        rest == IF deq THEN Tail(predQueue) ELSE predQueue
        p    == vis'.predictedMidi
    IN /\ scored' = IF deq THEN Some(Head(predQueue)) ELSE Null
       /\ predQueue' = IF p # Null THEN Append(rest, Val(p)) ELSE rest

C10_QueueFifo == [][C10_QueueStep]_vars

\* A frame has scored a prediction and enqueued its own behind a pending one.
C10_Witness ==
    /\ scored # Null
    /\ vis.predictedMidi # Null
    /\ Len(predQueue) >= 2
    /\ frames > 0

\* The step from (mae, count) to (mae2, count2) feeds the one sample, or,
\* when nothing is fed, leaves both as they were.
C11_FeedsOne(mae, count, mae2, count2, fed, sample) ==
    IF fed
    THEN /\ count2 = count + 1
         /\ mae2.n * count2 * mae.d = (mae.n * count + sample * mae.d) * mae2.d
    ELSE /\ count2 = count
         /\ mae2 = mae

\* C11: each of the three error accumulators is a running mean: a frame that
\* feeds it a sample v takes count to count + 1 and the mean to the value with
\* mean' * count' = mean * count + v (so after n samples count = n and the
\* mean is their sum over n); the count never decreases; an accumulator
\* changes only through its own sample, whatever is fed to the others.
C11_AccumStep ==
    LET e    == errors
        e2   == errors'
        semi == scored' # Null
        freq == semi /\ vis'.pitchHz # Null
        pred == Val(scored')
        predHz  == midiToFreq(pred)
        pitchHz == Val(vis'.pitchHz)
    IN /\ C11_FeedsOne(e.errorMAE, e.errorCount, e2.errorMAE, e2.errorCount,
                       semi, Abs(pred - Val(vis'.pitchMidi)))
       /\ C11_FeedsOne(e.errorMAEHz, e.errorCountHz,
                       e2.errorMAEHz, e2.errorCountHz,
                       freq, Abs(predHz - pitchHz))
       /\ C11_FeedsOne(e.errorMAECents, e.errorCountCents,
                       e2.errorMAECents, e2.errorCountCents,
                       freq, ErrCents(pitchHz, predHz))

C11_RunningMeans == [][C11_AccumStep]_vars

\* Two samples have been fed since construction and the semitone mean is
\* not a whole number.
C11_Witness ==
    /\ frames > 0
    /\ scored # Null
    /\ errors.errorCount = 2
    /\ errors.errorCountCents = 2
    /\ errors.errorMAE.d = 2

\* C12: the fused estimate of a frame is the autocorrelation estimate when
\* its clarity is greater than or equal to the cepstrum estimate's, the
\* cepstrum estimate otherwise: the fused clarity is the maximum of the two
\* and frequency, midi, note and clarity all come from that one estimator.
C12_FusedStep ==
    IF r1' = Null
    THEN vis'.pitchMidi = Null /\ vis'.clarity = 0
    ELSE
      LET acf == Val(r1')
          cep == IF r2' = Null THEN NoPitch ELSE Val(r2')
          win == IF acf.clarity >= cep.clarity THEN acf ELSE cep
      IN /\ vis'.clarity = Max(acf.clarity, cep.clarity)
         /\ vis'.pitchHz = win.frequency
         /\ vis'.pitchMidi = win.midi
         /\ vis'.pitchNote = win.note
         /\ vis'.clarity = win.clarity

C12_FusionPicksMax == [][C12_FusedStep]_vars

\* A frame in which the two estimators tie on a positive clarity with
\* different pitches, and the autocorrelation estimate was taken.
C12_Witness ==
    /\ frames > 0
    /\ r1 # Null /\ r2 # Null
    /\ Val(r1).clarity = Val(r2).clarity
    /\ Val(r1).clarity > 0
    /\ Val(r1).midi # Val(r2).midi
    /\ vis.pitchMidi = Val(r1).midi
    /\ vis.pitchNote = Val(r1).note

\* C18: a frame in which the capture source supplies no data (no analyser
\* node, or nothing fresh while buffers of an earlier frame exist) leaves
\* NoteHistory, PredictionQueue and the error accumulators as they were.
C18_NoSignalStep ==
    capture' \in {"absent", "stale"} =>
        /\ midiHist' = midiHist
        /\ predQueue' = predQueue
        /\ errors' = errors

C18_NoSignalKeeps == [][C18_NoSignalStep]_vars

\* C23: once NoteHistory holds at least 3 notes, every frame enqueues exactly
\* one prediction and dequeues at most one (only when it accepted a pitch),
\* so the queue never gets shorter from one frame's end to the next and gets
\* longer in every frame without an accepted pitch; the queue is non-empty
\* if and only if the history holds at least 3 notes.
C23_GrowStep ==
    Len(midiHist) >= PREDICT_MIN =>
        /\ vis'.predictedMidi # Null
        /\ predQueue' = Append(IF FrameAccepted THEN Tail(predQueue)
                                                ELSE predQueue,
                               Val(vis'.predictedMidi))
        /\ Len(predQueue') >= Len(predQueue)
        /\ ~FrameAccepted => Len(predQueue') = Len(predQueue) + 1

C23_QueueNeverShrinks ==
    /\ []((predQueue # <<>>) <=> (Len(midiHist) >= PREDICT_MIN))
    /\ [][C23_GrowStep]_vars

\* Frames without an accepted pitch have piled up predictions behind a
\* history of at least 3 notes.
C23_Witness ==
    /\ Len(midiHist) >= PREDICT_MIN
    /\ Len(predQueue) >= 3
    /\ ~(vis.pitchMidi # Null /\ vis.clarity > CLARITY_MIN)


-----------------------------------------------------------------------------
(* detectPitchACF: src/unnamed/part_004 lines 117-148                      *)
(*                                                                         *)
(* Samples are whole numbers; the DC-free samples are kept times the       *)
(* length n, and the common normalisation by maxAbs is a common factor M   *)
(* of every autocorrelation value.  Frequencies are in whole Hz, the       *)
(* clarity in tenths.                                                      *)

MaxWaveLen == 4

Samples == {-1, 0, 1}
SampleRates == {392, 440}
MinFreqs == {150, 200}
MaxFreqs == {220, 300, 1000}

\* Lines 119-123: time[i] - mean, times n.
Centred(time) ==
    LET n == Len(time)
        total == SumRange(time, 1, n)
    IN [i \in 1 .. n |-> n * time[i] - total]

\* Lines 122-124: maxAbs, times n (0 stands for the 1e-9 of a flat buffer,
\* whose normalised samples are all 0).
MaxAbs(u) ==
    IF u = <<>> THEN 0
    ELSE LET a == [i \in 1 .. Len(u) |-> Abs(u[i])]
         IN CHOOSE m \in {a[i] : i \in 1 .. Len(u)} :
               \A i \in 1 .. Len(u) : a[i] <= m

\* A sum of the products' magnitudes.
LagSumAbs(u, lag) ==
    SumRange([i \in 1 .. Len(u) - lag |-> Abs(u[i] * u[i + lag])], 1, Len(u) - lag)

\* Lines 132-135: sum of buf[i] * buf[i + lag], times the square of n * maxAbs.
LagSum(u, lag) ==
    SumRange([i \in 1 .. Len(u) - lag |-> u[i] * u[i + lag]], 1, Len(u) - lag)

\* Lines 126-127 and 130: minLag .. maxLag.
AcfLags(sampleRate, minFreq, maxFreq) ==
    (sampleRate \div maxFreq) .. (sampleRate \div minFreq)

\* Lines 130-138 from lag on: best is [lag, num, den], bestVal = num / den
\* up to the common factor.  val = sum / (len - lag) is NaN or -0 when the
\* lag reaches the length, and then not greater than bestVal.
RECURSIVE BestLagFrom(_, _, _, _)
BestLagFrom(u, lag, maxLag, best) ==
    IF lag > maxLag THEN best
    ELSE
      LET den == Len(u) - lag
          sum == IF den > 0 THEN LagSum(u, lag) ELSE 0
          better == den > 0 /\ sum * best.den > best.num * den
      IN BestLagFrom(u, lag + 1, maxLag,
                     IF better THEN [lag |-> lag, num |-> sum, den |-> den]
                     ELSE best)

\* Lines 117-148.
detectPitchACF(time, sampleRate, minFreq, maxFreq) ==
    LET u    == Centred(time)
        m    == MaxAbs(u)
        lags == AcfLags(sampleRate, minFreq, maxFreq)
        minLag == sampleRate \div maxFreq
        maxLag == minLag + Cardinality(lags) - 1
        best == BestLagFrom(u, minLag, maxLag, [lag |-> -1, num |-> 0, den |-> 1])
    IN IF best.lag <= 0 THEN NoPitch
       ELSE
         LET freq == sampleRate \div best.lag
             midi == freqToMidi(freq)
             bestVal == TDiv(10 * best.num, best.den * m * m)
         IN [frequency |-> Some(freq), midi |-> Some(midi),
             note |-> Some(midiToNoteName(midi)),
             clarity |-> Min(10, Max(0, bestVal))]

InitAcf ==
    /\ \E time \in SeqsUpTo(Samples, MaxWaveLen), sr \in SampleRates,
          lo \in MinFreqs, hi \in MaxFreqs :
          acfArgs = Some([time |-> time, sampleRate |-> sr,
                          minFreq |-> lo, maxFreq |-> hi])
    /\ acfRet = Null
    /\ IdleBoids /\ IdleSwarms /\ IdlePredict /\ IdleLoop /\ IdleFlux /\ IdleBpm
    /\ IdleKey /\ IdleLate

AcfCall ==
    /\ acfRet = Null
    /\ LET a == Val(acfArgs)
       IN acfRet' = Some(detectPitchACF(a.time, a.sampleRate, a.minFreq, a.maxFreq))
    /\ UNCHANGED <<acfArgs, boidVars, swarmVars, predictVars, loopVars,
                   fluxVars, bpmVars, keyVars, lateVars>>

NextAcf == AcfCall

SpecAcf == InitAcf /\ [][NextAcf]_vars

\* The autocorrelation of the DC-free waveform at the lag, times a positive
\* factor: positive exactly when the code's val is.
C13_Autocorr(time, lag) ==
    LET n == Len(time)
        total == SumOver([i \in 1 .. n |-> time[i]], 1 .. n)
    IN IF lag >= n THEN 0
       ELSE SumOver([i \in 1 .. n - lag |->
                       (n * time[i] - total) * (n * time[i + lag] - total)],
                    1 .. n - lag)

\* C13: detectPitchACF returns a clarity within [0,1]; a non-null frequency
\* is sampleRate / lag for a whole lag >= 1 between floor(sampleRate/maxFreq)
\* and floor(sampleRate/minFreq); when no lag of that range has a positive
\* autocorrelation, frequency, midi and note are null and the clarity is 0.
C13_AcfContract ==
    acfRet # Null =>
      LET a == Val(acfArgs)
          r == Val(acfRet)
          minLag == a.sampleRate \div a.maxFreq
          maxLag == a.sampleRate \div a.minFreq
      IN /\ r.clarity \in 0 .. 10
         /\ r.frequency # Null =>
              \E lag \in minLag .. maxLag :
                 /\ lag >= 1
                 /\ Val(r.frequency) = a.sampleRate \div lag
         /\ (\A lag \in minLag .. maxLag : C13_Autocorr(a.time, lag) <= 0) =>
              r = NoPitch
         /\ r.frequency = Null => r = NoPitch

\* A pitch was found at lag 2, the second lag of the range, although lag 1
\* has a negative autocorrelation.
C13_Witness ==
    /\ acfRet # Null
    /\ Val(acfRet).frequency # Null
    /\ Val(acfArgs).sampleRate \div Val(acfArgs).maxFreq = 1
    /\ Val(Val(acfRet).frequency) * 2 = Val(acfArgs).sampleRate
    /\ Val(acfRet).clarity > 0
    /\ C13_Autocorr(Val(acfArgs).time, 1) < 0

-----------------------------------------------------------------------------
(* Frame loop, spectral flux, beat flag and bass drive:                    *)
(* src/src/components/VisualizerPro.tsx lines 1403-1429 and 1505-1545,     *)
(* and the drive of drawSwarms, lines 1851-1854 and 1904-1910              *)
(*                                                                         *)
(* Magnitudes and powers are in tenths of a dB, the flux is an exact       *)
(* fraction of tenths, the drive is in thousandths.  The BPM estimate the  *)
(* frame takes from the flux history is modelled by estimateBPM below and  *)
(* is no part of this state.                                               *)

MaxFluxFrames == 4

FLUX_CAP == 1024
FLUX_MIN == 8
REFRACTORY_MS == 120
POWER_BIAS == 1400
SAMPLE_RATE == 48000
BASS_HZ == 150
BEAT_BONUS == 250
SPEED_BASE == 150
SPEED_AMP == 3000
SPEED_SHAKE == 800
BASS_PUSH_CAP == 1800
DRIVE_CAP == 4000

\* Contents of the magnitude buffer after analyser.getFloatFrequency: near
\* silence at -141 dB up to a bass tone at -90 dB.
Mags == {<<-1410, -1410>>, <<-1384, -1410>>, <<-1380, -1380>>,
         <<-1360, -1360>>, <<-900, -1410>>}

\* now - last of a frame, in ms.
FluxDts == {60, 120}

\* Lines 1513 and 1516: v = Math.max(0, mag[i] + 140)
Power(mag) == [i \in 1 .. Len(mag) |-> Max(0, mag[i] + POWER_BIAS)]

\* Line 1510: fluxPrev.current ?? new Float32Array(mag.length)
PrevPower(prev, mag) ==
    IF prev = Null THEN [i \in 1 .. Len(mag) |-> 0] ELSE Val(prev)

\* Lines 1511-1518: the mean positive rise of the power over prev.
Flux(prev, mag) ==
    LET v == Power(mag)
        n == Len(mag)
    IN Frac(SumRange([i \in 1 .. n |-> Max(0, v[i] - prev[i])], 1, n), n)

\* A push that never shifts.
PushFluxUnbounded(h, f) == Append(h, f)

\* Lines 1521-1522: push, then shift when longer than 1024.
PushFlux(h, f) ==
    LET h2 == Append(h, f)
    IN IF Len(h2) > FLUX_CAP THEN Tail(h2) ELSE h2

\* now - lastBeat.current after dt more ms; every value above the
\* refractory period is kept as REFRACTORY_MS + 1.
Elapsed(age, dt) == Min(REFRACTORY_MS + 1, age + dt)

\* A refractory test that lets a beat through at exactly 120 ms.
IsBeatAtLeast(f, since) == f.n > FLUX_MIN * f.d /\ since >= REFRACTORY_MS

\* Lines 1526-1532: flux > 0.8 and since > 120
IsBeat(f, since) == f.n > FLUX_MIN * f.d /\ since > REFRACTORY_MS

\* Lines 1534-1540: the mean power of the bins up to 150 Hz.
BassEnergy(mag) ==
    LET bins     == Len(mag)
        hzPerBin == (SAMPLE_RATE \div 2) \div bins
        maxBin   == Min(bins - 1, BASS_HZ \div hzPerBin)
    IN SumRange([i \in 1 .. maxBin + 1 |-> Max(0, mag[i] + POWER_BIAS)],
                1, maxBin + 1) \div (maxBin + 1)

\* Lines 1851-1854: 0.15 + Math.pow(ampMA, SPEED_ORDER) * 3.0 + (shake > 0 ?
\* 0.8 : 0), for a moving average of 0 (quiet) or 1 (full).
SpeedScale(full, shaking) ==
    SPEED_BASE + (IF full THEN SPEED_AMP ELSE 0)
               + (IF shaking THEN SPEED_SHAKE ELSE 0)

\* Lines 1904-1908: Math.min(4.0, speedScale + Math.min(1.8,
\* (VIS.bassEnergy + (VIS.flux > 0.8 ? 25 : 0)) * 0.02))
Drive(speedScale, bass, f) ==
    LET bonus == IF f.n > FLUX_MIN * f.d THEN BEAT_BONUS ELSE 0
    IN Min(DRIVE_CAP, speedScale + Min(BASS_PUSH_CAP, 2 * (bass + bonus)))

\* Lines 1139-1144: nothing captured yet; the page is older than the
\* refractory period when the first frame runs.
InitFlux ==
    /\ magBuf = Null
    /\ fluxPrev = Null
    /\ fluxHist = <<>>
    /\ flux = Frac(0, 1)
    /\ beat = FALSE
    /\ sinceBeat = REFRACTORY_MS + 1
    /\ beatAge = REFRACTORY_MS + 1
    /\ fluxFrames = 0
    /\ bassEnergy = 0
    /\ drive = 0
    /\ IdleBoids /\ IdleSwarms /\ IdlePredict /\ IdleLoop /\ IdleAcf /\ IdleBpm
    /\ IdleKey /\ IdleLate

\* One run of loop() in a mode that draws the swarms: src is what the
\* capture source gives, fresh is what the magnitude buffer holds when the
\* data is fresh, full and shaking are what drawSwarms finds in its
\* amplitude average and in shakeRef.
FluxFrame ==
    /\ fluxFrames < MaxFluxFrames
    /\ \E src \in Captures(magBuf), fresh \in Mags, dt \in FluxDts,
          full \in BOOLEAN, shaking \in BOOLEAN :
          LET mag   == IF src = "fresh" THEN Some(fresh) ELSE magBuf
              since == Elapsed(beatAge, dt)
          IN /\ magBuf' = mag
             /\ sinceBeat' = since
             /\ IF mag = Null
                THEN /\ flux' = Frac(0, 1)
                     /\ beat' = FALSE
                     /\ beatAge' = since
                     /\ drive' = Drive(SpeedScale(full, shaking),
                                       bassEnergy, flux)
                     /\ UNCHANGED <<fluxPrev, fluxHist, bassEnergy>>
                ELSE LET f == Flux(PrevPower(fluxPrev, Val(mag)), Val(mag))
                         b == BassEnergy(Val(mag))
                     IN /\ flux' = f
                        /\ fluxPrev' = Some(Power(Val(mag)))
                        /\ fluxHist' = PushFlux(fluxHist, f)
                        /\ beat' = IsBeat(f, since)
                        /\ beatAge' = IF IsBeat(f, since) THEN 0 ELSE since
                        /\ bassEnergy' = b
                        /\ drive' = Drive(SpeedScale(full, shaking), b, f)
    /\ fluxFrames' = fluxFrames + 1
    /\ UNCHANGED <<boidVars, swarmVars, predictVars, loopVars, acfVars,
                   bpmVars, keyVars, lateVars>>

NextFlux == FluxFrame

SpecFlux == InitFlux /\ [][NextFlux]_vars

\* C14 as stated: a frame flags a beat exactly when its flux exceeds 0.8 and
\* at least 120 ms have elapsed since the last flagged beat; the last-beat
\* timestamp changes only in frames that flag a beat.
C14_BeatStepAtLeast ==
    /\ beat' = (flux'.n > FLUX_MIN * flux'.d /\ sinceBeat' >= REFRACTORY_MS)
    /\ beatAge' = IF beat' THEN 0 ELSE sinceBeat'

C14_BeatAtLeast120 == [][C14_BeatStepAtLeast]_vars

\* C14 as the code has it: a frame flags a beat exactly when its flux exceeds
\* 0.8 and more than 120 ms have elapsed since the last flagged beat; the
\* last-beat timestamp changes only in frames that flag a beat, so two
\* flagged beats are more than 120 ms apart however many high-flux frames
\* occur in between.
C14_BeatStepMoreThan ==
    /\ beat' = (flux'.n > FLUX_MIN * flux'.d /\ sinceBeat' > REFRACTORY_MS)
    /\ beatAge' = IF beat' THEN 0 ELSE sinceBeat'
    /\ beat' => sinceBeat' > REFRACTORY_MS

C14_BeatAfter120 == [][C14_BeatStepMoreThan]_vars

\* A high-flux frame inside the refractory period of an earlier beat: no
\* beat is flagged and the timestamp is left alone.
C14_Witness ==
    /\ fluxFrames >= 2
    /\ flux.n > FLUX_MIN * flux.d
    /\ sinceBeat < REFRACTORY_MS
    /\ ~beat
    /\ beatAge = sinceBeat

\* The magnitude arrays of a long quiet passage: a faint tone in the odd
\* frames, silence in the even ones.
WarmMag(i) == IF i % 2 = 1 THEN <<-1384, -1410>> ELSE <<-1410, -1410>>

\* Number of frames of the passage: one short of a full history.
WarmFrames == FLUX_CAP - 1

\* Lines 1509-1545 after WarmFrames frames of the passage, each 60 ms or
\* more after the one before: no flux exceeded 0.8, so no beat was flagged
\* and the history holds one value per frame.
InitFluxWarm ==
    LET last == WarmMag(WarmFrames)
        f    == Flux(Power(WarmMag(WarmFrames - 1)), last)
    IN /\ magBuf = Some(last)
       /\ fluxPrev = Some(Power(last))
       /\ fluxHist = [i \in 1 .. WarmFrames |->
                        Flux(IF i = 1 THEN PrevPower(Null, WarmMag(1))
                             ELSE Power(WarmMag(i - 1)), WarmMag(i))]
       /\ flux = f
       /\ beat = FALSE
       /\ sinceBeat = REFRACTORY_MS + 1
       /\ beatAge = REFRACTORY_MS + 1
       /\ fluxFrames = 0
       /\ bassEnergy = BassEnergy(last)
       /\ drive = Drive(SpeedScale(FALSE, FALSE), BassEnergy(last), f)
       /\ IdleBoids /\ IdleSwarms /\ IdlePredict /\ IdleLoop /\ IdleAcf
       /\ IdleBpm /\ IdleKey /\ IdleLate

\* The frames from a cold start and the frames that fill and overflow the
\* history.
InitFluxLong == InitFlux \/ InitFluxWarm

SpecFluxLong == InitFluxLong /\ [][NextFlux]_vars

\* C30: a frame without a magnitude array leaves the flux history alone; a
\* frame with one appends exactly one value, the mean positive rise of the
\* re-biased power over the previous frame's power (zeros before the first
\* frame), which is not negative and is 0 when the magnitude array equals
\* the previous frame's; the value goes to the end and, when the history
\* already held 1024 values, the oldest one is dropped, so the history never
\* holds more than 1024 values.
C30_Rise(before, mag) ==
    LET n == Len(mag)
        p == IF before = Null THEN [i \in 1 .. n |-> 0]
             ELSE [i \in 1 .. n |-> Max(0, Val(before)[i] + POWER_BIAS)]
        v == [i \in 1 .. n |-> Max(0, mag[i] + POWER_BIAS)]
    IN SumRange([i \in 1 .. n |-> IF v[i] > p[i] THEN v[i] - p[i] ELSE 0],
                1, n)

C30_FluxStep ==
    IF magBuf' = Null
    THEN fluxHist' = fluxHist
    ELSE LET rise == C30_Rise(magBuf, Val(magBuf'))
             kept == IF Len(fluxHist) < FLUX_CAP THEN fluxHist
                     ELSE SubSeq(fluxHist, 2, Len(fluxHist))
         IN /\ flux'.n >= 0 /\ flux'.d > 0
            /\ flux'.n * Len(Val(magBuf')) = rise * flux'.d
            /\ fluxHist' = kept \o <<flux'>>
            /\ Len(fluxHist') <= FLUX_CAP
            /\ (magBuf' = magBuf) => flux'.n = 0

C30_FluxHistoryFifo ==
    /\ [](Len(fluxHist) <= FLUX_CAP)
    /\ [][C30_FluxStep]_vars

\* A full history has dropped its oldest value for the flux of a frame
\* whose magnitude array equals that of the frame before.
C30_Witness ==
    /\ fluxFrames = 2
    /\ Len(fluxHist) = FLUX_CAP
    /\ fluxHist[1] = Flux(Power(WarmMag(1)), WarmMag(2))
    /\ fluxHist[FLUX_CAP] = Frac(0, 1)
    /\ flux = Frac(0, 1)

\* C19: in every frame the bass/beat drive handed to stepBoids as bassPush
\* is within [0, 1], for every magnitude array.
C19_DriveInUnitRange == drive >= 0 /\ drive <= 1000

-----------------------------------------------------------------------------
(* estimateBPM: src/src/components/VisualizerPro.tsx lines 2284-2315       *)
(*                                                                         *)
(* Flux values are whole numbers, frameMs is in tenths of a ms, a BPM is   *)
(* an exact fraction.  The mean-free series is kept times its length N,    *)
(* which multiplies every autocorrelation value by N * N.                  *)

MaxExtraLen == 1

BPM_MIN_LEN == 128
BPM_MIN_LAG == 8
MIN_BPM == 60
MAX_BPM == 200
TENTHS_PER_MIN == 600000

\* Flux histories: flat, a pulse every P frames, a triangle wave of period P.
Flat(n) == [i \in 1 .. n |-> 0]

Pulse(per, n) == [i \in 1 .. n |-> IF (i - 1) % per = 0 THEN 10 ELSE 0]

Triangle(per, n) == [i \in 1 .. n |-> Abs(2 * ((i - 1) % per) - per)]

Periods == {20, 32, 60, 64}
SeriesLens == (BPM_MIN_LEN - 1) .. (BPM_MIN_LEN + MaxExtraLen)
FrameMsTenths == {47, 100, 167}

SeriesOfLen(n) ==
    {Flat(n)} \cup {Pulse(per, n) : per \in Periods}
              \cup {Triangle(per, n) : per \in Periods}

\* Lines 2292-2293: series[i] - mean, times N.
MeanFree(series) ==
    LET n == Len(series)
        total == SumRange(series, 1, n)
    IN [i \in 1 .. n |-> n * series[i] - total]

\* Lines 2295-2299: ac[lag] for 1 <= lag < N / 2, times N * N.
Autocorr(series) ==
    LET x == MeanFree(series)
        n == Len(series)
    IN [lag \in 1 .. (n - 1) \div 2 |->
          SumRange([i \in 1 .. n - lag |-> x[i] * x[i + lag]], 1, n - lag)]

\* Lines 2303-2304: 60000 / Math.max(1, lag * frameMs)
BpmOfLag(lag, frameMs) == Frac(TENTHS_PER_MIN, Max(10, lag * frameMs))

\* Line 2305: bpm >= minBPM && bpm <= maxBPM
InBand(bpm, minBPM, maxBPM) ==
    bpm.n >= minBPM * bpm.d /\ bpm.n <= maxBPM * bpm.d

\* A search that takes the last of the lags in the band.
BestBpmLagLast(ac, from, frameMs, minBPM, maxBPM) ==
    LET ok == {l \in from .. Len(ac) :
                 InBand(BpmOfLag(l, frameMs), minBPM, maxBPM)}
    IN IF ok = {} THEN -1 ELSE CHOOSE l \in ok : \A k \in ok : k <= l

\* Lines 2300-2311: the loop over lag = from .. ac.length - 1 replaces the
\* best lag only by a lag in the band with a strictly greater ac, so it ends
\* with the first of the lags in the band that have the greatest ac, or with
\* -1 when no lag is in the band.
BestBpmLag(ac, from, frameMs, minBPM, maxBPM) ==
    LET ok == {l \in from .. Len(ac) :
                 InBand(BpmOfLag(l, frameMs), minBPM, maxBPM)}
    IN IF ok = {} THEN -1
       ELSE CHOOSE l \in ok :
              \A k \in ok : ac[l] > ac[k] \/ (ac[l] = ac[k] /\ l <= k)

\* Lines 2284-2315; the result is Null or Some(bpm).
estimateBPM(series, minBPM, maxBPM, frameMs) ==
    IF Len(series) < BPM_MIN_LEN THEN Null
    ELSE
      LET bestLag == BestBpmLag(Autocorr(series), BPM_MIN_LAG, frameMs,
                                minBPM, maxBPM)
      IN IF bestLag < 0 THEN Null ELSE Some(BpmOfLag(bestLag, frameMs))

InitBpm ==
    /\ \E n \in SeriesLens, frameMs \in FrameMsTenths :
          \E series \in SeriesOfLen(n) :
             bpmArgs = Some([series |-> series, frameMs |-> frameMs])
    /\ bpmRet = Null
    /\ IdleBoids /\ IdleSwarms /\ IdlePredict /\ IdleLoop /\ IdleAcf /\ IdleFlux
    /\ IdleKey /\ IdleLate

\* Line 1523: estimateBPM(fluxHist.current, 60, 200, frameMsAvg.current)
BpmCall ==
    /\ bpmRet = Null
    /\ LET a == Val(bpmArgs)
       IN bpmRet' = Some(estimateBPM(a.series, MIN_BPM, MAX_BPM, a.frameMs))
    /\ UNCHANGED <<bpmArgs, boidVars, swarmVars, predictVars, loopVars,
                   acfVars, fluxVars, keyVars, lateVars>>

NextBpm == BpmCall

SpecBpm == InitBpm /\ [][NextBpm]_vars

\* The autocorrelation sum of the mean-free series at the lag, times N * N.
C15_Ac(series, lag) ==
    LET n == Len(series)
        total == SumRange(series, 1, n)
    IN SumRange([i \in 1 .. n - lag |->
                   (n * series[i] - total) * (n * series[i + lag] - total)],
                1, n - lag)

\* The lags among lags whose BPM, 60000 / (lag * frameMs), is in [60, 200].
C15_InBand(lags, frameMs) ==
    {l \in lags : /\ TENTHS_PER_MIN >= MIN_BPM * l * frameMs
                  /\ TENTHS_PER_MIN <= MAX_BPM * l * frameMs}

\* The result r of estimateBPM on arguments a when lags are the lags searched:
\* null for a short series or when no lag is in the band, else the BPM of a
\* lag in the band whose autocorrelation no other lag in the band exceeds.
C15_ResultOver(a, r, lags) ==
    LET q == C15_InBand(lags, a.frameMs)
    IN IF Len(a.series) < BPM_MIN_LEN \/ q = {}
       THEN r = Null
       ELSE /\ r # Null
            /\ Val(r).n >= MIN_BPM * Val(r).d
            /\ Val(r).n <= MAX_BPM * Val(r).d
            /\ \E l \in q :
                  /\ Val(r) = Frac(TENTHS_PER_MIN, l * a.frameMs)
                  /\ \A k \in q : C15_Ac(a.series, l) >= C15_Ac(a.series, k)

\* C15 as stated, the lags being 8 .. N/2 with N/2 included.
C15_LagsUpToHalf ==
    bpmRet # Null =>
      LET a == Val(bpmArgs)
      IN C15_ResultOver(a, Val(bpmRet),
                        {l \in BPM_MIN_LAG .. Len(a.series) : 2 * l <= Len(a.series)})

\* C15 as the code has it: estimateBPM returns null whenever the series has
\* fewer than 128 samples or no lag with 8 <= lag < N/2 implies a BPM inside
\* [60,200]; otherwise it returns 60000 / (lag * frameMs) for a lag of that
\* range and band with the largest autocorrelation, a value within [60,200].
C15_LagsBelowHalf ==
    bpmRet # Null =>
      LET a == Val(bpmArgs)
      IN C15_ResultOver(a, Val(bpmRet),
                        {l \in BPM_MIN_LAG .. Len(a.series) : 2 * l < Len(a.series)})

\* 128 samples with a pulse every 32 frames of 10 ms: lag 32 was taken, which
\* is not the first lag in the band.
C15_Witness ==
    /\ bpmRet # Null
    /\ Val(bpmRet) # Null
    /\ Len(Val(bpmArgs).series) = BPM_MIN_LEN
    /\ Val(bpmArgs).frameMs = 100
    /\ Val(Val(bpmRet)) = Frac(TENTHS_PER_MIN, 32 * 100)
    /\ C15_InBand({30}, 100) = {30}

\* The series repeats with period per.
C16_Repeats(series, per) ==
    \A i \in 1 .. Len(series) - per : series[i] = series[i + per]

\* C16: for a flux history of at least 128 samples that is perfectly periodic
\* with period P frames, 8 <= P < N/2, whose BPM 60000 / (P * frameMs) lies
\* in [60,200], estimateBPM returns exactly 60000 / (P * frameMs).
C16_RecoversPeriod ==
    bpmRet # Null =>
      LET a == Val(bpmArgs)
          n == Len(a.series)
      IN \A per \in BPM_MIN_LAG .. n :
            ( /\ n >= BPM_MIN_LEN
              /\ 2 * per < n
              /\ C16_Repeats(a.series, per)
              /\ \A k \in 1 .. per - 1 : ~C16_Repeats(a.series, k)
              /\ C15_InBand({per}, a.frameMs) = {per} )
            => Val(bpmRet) = Some(Frac(TENTHS_PER_MIN, per * a.frameMs))

-----------------------------------------------------------------------------
(* Key scoring of estimateKeyFromFFT:                                      *)
(* src/src/components/VisualizerPro.tsx lines 2317-2359 and 1046-1051      *)
(*                                                                         *)
(* The profiles are in hundredths.  The call is modelled from the chroma   *)
(* histogram bins that its first loop (lines 2319-2327) has accumulated.   *)

KS_MAJOR == <<635, 223, 348, 233, 438, 409, 252, 519, 239, 366, 229, 288>>
KS_MINOR == <<633, 268, 352, 538, 260, 353, 254, 475, 398, 269, 334, 317>>

\* Chroma histograms (pitch class c is index c + 1): a profile moved to the
\* root r, a chord on the root r, silence.
Rotated(profile, r) == [j \in 1 .. 12 |-> profile[((j - 1 - r + 12) % 12) + 1]]

Chord(r, steps) ==
    [j \in 1 .. 12 |-> IF ((j - 1 - r + 12) % 12) \in steps THEN 100 ELSE 0]

Chromas ==
    {Rotated(KS_MAJOR, r) : r \in 0 .. 11} \cup
    {Rotated(KS_MINOR, r) : r \in 0 .. 11} \cup
    {Chord(r, {0}) : r \in 0 .. 11} \cup
    {Chord(r, {0, 4, 7}) : r \in 0 .. 11} \cup
    {Chord(r, {0, 3, 7}) : r \in 0 .. 11} \cup
    {Chord(0, {})}

\* Line 2333: s += bins[(i + shift) % 12] * profile[i]
ShiftScore(bins, profile, shift) ==
    SumRange([i \in 1 .. 12 |-> bins[((i - 1 + shift) % 12) + 1] * profile[i]],
             1, 12)

\* Lines 2328-2340: score(profile); shifts are tried in order 0 .. 11 and a
\* shift replaces the best only with a strictly greater sum.
RECURSIVE ScoreFrom(_, _, _, _)
ScoreFrom(bins, profile, shift, best) ==
    IF shift > 11 THEN best
    ELSE LET sum == ShiftScore(bins, profile, shift)
         IN ScoreFrom(bins, profile, shift + 1,
                      IF best.key = -1 \/ sum > best.val
                      THEN [key |-> shift, val |-> sum] ELSE best)

score(bins, profile) == ScoreFrom(bins, profile, 0, [key |-> -1, val |-> 0])

\* Lines 2341-2358: the name of the winning shift and the mode, ties to major.
KeyOfChroma(bins) ==
    LET maj  == score(bins, KS_MAJOR)
        minr == score(bins, KS_MINOR)
    IN IF maj.val >= minr.val
       THEN <<NOTE_NAMES[maj.key + 1], "major">>
       ELSE <<NOTE_NAMES[minr.key + 1], "minor">>

InitKey ==
    /\ \E bins \in Chromas : chroma = Some(bins)
    /\ keyText = Null
    /\ IdleBoids /\ IdleSwarms /\ IdlePredict /\ IdleLoop /\ IdleAcf /\ IdleFlux
    /\ IdleBpm /\ IdleLate

KeyCall ==
    /\ keyText = Null
    /\ keyText' = Some(KeyOfChroma(Val(chroma)))
    /\ UNCHANGED <<chroma, boidVars, swarmVars, predictVars, loopVars, acfVars,
                   fluxVars, bpmVars, lateVars>>

NextKey == KeyCall

SpecKey == InitKey /\ [][NextKey]_vars

\* C17: when the chroma histogram equals the C-major profile KS_MAJOR
\* (rotation 0), the key scoring returns "C major".
C17_CMajorProfile ==
    (keyText # Null /\ Val(chroma) = KS_MAJOR) => Val(keyText) = <<"C", "major">>

-----------------------------------------------------------------------------
(* Sparkle pool: burstSparkles and stepSparkles, src/unnamed/part_000      *)
(*                                                                         *)
(* Positions and velocities are integers, velocities decay by truncation,  *)
(* life is counted in steps of 0.02.                                       *)

MaxSparks == 2
MaxSparkCalls == 2

SPARK_LIFE == 50
SPARK_DECAY_PCT == 98

\* The W and H handed to stepSparkles.
SparkW == 20
SparkH == 20

\* Math.cos(a) * s, Math.sin(a) * s of a burst.
SparkVels == {<<vx, vy>> : vx \in {-15, 0, 15}, vy \in {-15, 0, 15}}

\* Sparkles a pool holds between two frames: bursts of earlier frames,
\* fresh or on their last step of life.
SparkleInputs ==
    [x : {5, 10}, y : {10}, vx : {-15, 0, 15}, vy : {-15, 0, 15},
     life : {1, SPARK_LIFE}]

\* Lines 4-8: arr.push({x, y, vx, vy, life: 1.0}) amount times.
burstSparkles(arr, x, y, amount, vs) ==
    arr \o [i \in 1 .. amount |->
              [x |-> x, y |-> y, vx |-> vs[i][1], vy |-> vs[i][2],
               life |-> SPARK_LIFE]]

\* Lines 13-15: one sparkle's advance.
Advance(p) ==
    [x |-> p.x + p.vx, y |-> p.y + p.vy,
     vx |-> TDiv(p.vx * SPARK_DECAY_PCT, 100),
     vy |-> TDiv(p.vy * SPARK_DECAY_PCT, 100),
     life |-> p.life - 1]

\* Line 16: p.life <= 0 || p.x < 0 || p.x > W || p.y < 0 || p.y > H
Gone(p) ==
    p.life <= 0 \/ p.x < 0 \/ p.x > SparkW \/ p.y < 0 \/ p.y > SparkH

\* arr.splice(i, 1), i counted from 1.
Splice(arr, i) ==
    [j \in 1 .. Len(arr) - 1 |-> IF j < i THEN arr[j] ELSE arr[j + 1]]

\* A loop that walks the pool upward and splices on the way.
RECURSIVE StepUp(_, _)
StepUp(arr, i) ==
    IF i > Len(arr) THEN arr
    ELSE LET p  == Advance(arr[i])
             a2 == [arr EXCEPT ![i] = p]
         IN StepUp(IF Gone(p) THEN Splice(a2, i) ELSE a2, i + 1)

stepSparklesUpward(arr) == StepUp(arr, 1)

\* Lines 11-17: for (i = arr.length - 1; i >= 0; i--), i counted from 1.
RECURSIVE StepDown(_, _)
StepDown(arr, i) ==
    IF i < 1 THEN arr
    ELSE LET p  == Advance(arr[i])
             a2 == [arr EXCEPT ![i] = p]
         IN StepDown(IF Gone(p) THEN Splice(a2, i) ELSE a2, i - 1)

stepSparkles(arr) == StepDown(arr, Len(arr))

InitSparks ==
    /\ sparks \in SeqsUpTo(SparkleInputs, MaxSparks)
    /\ sparkArgs = Null
    /\ sparkCalls = 0
    /\ IdleCore /\ IdleWake /\ IdleMic /\ IdleHook /\ IdleRaf

\* burstSparkles(sparksRef.current, W / 2, H / 2, amount, energy)
BurstSparkles ==
    /\ sparkCalls < MaxSparkCalls
    /\ Len(sparks) < MaxSparks
    /\ \E amount \in 1 .. MaxSparks - Len(sparks) :
          \E vs \in [1 .. amount -> SparkVels] :
             sparks' = burstSparkles(sparks, SparkW \div 2, SparkH \div 2,
                                     amount, vs)
    /\ sparkArgs' = Null
    /\ sparkCalls' = sparkCalls + 1
    /\ UNCHANGED <<coreVars, wakeVars, micVars, hookVars, rafVars>>

\* stepSparkles(sparksRef.current, W, H)
StepSparkles ==
    /\ sparkCalls < MaxSparkCalls
    /\ sparks' = stepSparkles(sparks)
    /\ sparkArgs' = Some(sparks)
    /\ sparkCalls' = sparkCalls + 1
    /\ UNCHANGED <<coreVars, wakeVars, micVars, hookVars, rafVars>>

NextSparks == BurstSparkles \/ StepSparkles

SpecSparks == InitSparks /\ [][NextSparks]_vars

C21_Stays(p) == ~Gone(p)

C21_Advanced(arr) == [i \in DOMAIN arr |-> Advance(arr[i])]

\* C21: after every stepSparkles call each sparkle was advanced exactly
\* once, the sparkles whose life ran out or that left [0,W]x[0,H] are gone,
\* the others are in the pool in their old order, alive and inside the
\* bounds: a removal neither skips nor double-steps another sparkle.
C21_StepSparklesExact ==
    sparkArgs # Null =>
        /\ sparks = SelectSeq(C21_Advanced(Val(sparkArgs)), C21_Stays)
        /\ \A i \in DOMAIN sparks :
              /\ sparks[i].life > 0 /\ sparks[i].life <= SPARK_LIFE
              /\ sparks[i].x >= 0 /\ sparks[i].x <= SparkW
              /\ sparks[i].y >= 0 /\ sparks[i].y <= SparkH

\* A call that removed the first of two sparkles and kept the second, which
\* ends on the right edge of the canvas.
C21_Witness ==
    /\ sparkArgs # Null
    /\ Len(Val(sparkArgs)) = 2
    /\ Gone(Advance(Val(sparkArgs)[1]))
    /\ Len(sparks) = 1
    /\ sparks[1].x = SparkW

-----------------------------------------------------------------------------
(* useWakeLock: src/src/hooks/useWakeLock.ts                               *)
(*                                                                         *)
(* One run of the effect with enabled and supported true, up to and past   *)
(* its cleanup.  wake is a record:                                         *)
(*   visible      document.visibilityState === "visible"                   *)
(*   cancelled    the effect's cancelled flag                              *)
(*   sentinelRef  sentinelRef.current: 0 for null, else a sentinel's id    *)
(*   pending      navigator.wakeLock.request promises not yet settled      *)
(*   acquired     number of sentinels handed out so far (ids 1..acquired)  *)
(*   held         ids of the sentinels not released                        *)
(*   listening    ids of the sentinels that carry the release listener     *)
(*   issued       number of navigator.wakeLock.request calls so far        *)
(* The platform follows the Screen Wake Lock API: a request settles in a   *)
(* task of its own, it is granted only to a visible document, a document   *)
(* that becomes hidden has all its locks released before visibilitychange  *)
(* is fired, and a release fires the sentinel's release event at once.     *)

MaxWakeRequests == 4

\* navigator.wakeLock.request("screen") is granted only while visible.
CanAcquireAlways(visible) == TRUE

CanAcquire(visible) == visible

\* Lines 17-24: request() up to its await.
request(w) ==
    IF ~w.visible THEN w
    ELSE IF w.sentinelRef # 0 THEN w
    ELSE [w EXCEPT !.pending = @ + 1, !.issued = @ + 1]

\* Lines 31-37: the release listener of sentinel id.
OnRelease(w, id) ==
    IF id \in w.listening /\ ~w.cancelled /\ w.visible
    THEN request([w EXCEPT !.sentinelRef = 0])
    ELSE w

\* sentinel.release(), by the hook or by the platform: the first release of
\* a sentinel fires its release event.
ReleaseSentinel(w, id) ==
    IF id \in w.held THEN OnRelease([w EXCEPT !.held = @ \ {id}], id) ELSE w

\* Lines 55-61: release().
release(w) ==
    LET s  == w.sentinelRef
        w1 == [w EXCEPT !.sentinelRef = 0]
    IN IF s # 0 THEN ReleaseSentinel(w1, s) ELSE w1

\* Lines 25-37: request() after its await.
Granted(w) ==
    LET id == w.acquired + 1
        w1 == [w EXCEPT !.pending = @ - 1, !.acquired = id,
                        !.held = @ \cup {id}]
    IN IF w.cancelled
       THEN ReleaseSentinel(w1, id)
       ELSE [w1 EXCEPT !.sentinelRef = id, !.listening = @ \cup {id}]

\* Lines 12-68: the effect has run, its priming request() included.
InitWake ==
    /\ \E v \in BOOLEAN :
          wake = request([visible |-> v, cancelled |-> FALSE, sentinelRef |-> 0,
                          pending |-> 0, acquired |-> 0, held |-> {},
                          listening |-> {}, issued |-> 0])
    /\ IdleCore /\ IdleSparks /\ IdleMic /\ IdleHook /\ IdleRaf

WakeStep(w) ==
    /\ w.issued <= MaxWakeRequests
    /\ wake' = w
    /\ UNCHANGED <<coreVars, sparkVars, micVars, hookVars, rafVars>>

\* The promise of line 24 resolves.
WakeGranted == wake.pending > 0 /\ CanAcquire(wake.visible) /\ WakeStep(Granted(wake))

\* The promise of line 24 rejects (lines 38-41).
WakeDenied == wake.pending > 0 /\ WakeStep([wake EXCEPT !.pending = @ - 1])

\* The document becomes hidden: the platform releases its locks, then
\* onVisibility runs (lines 44-50) unless the listeners were removed.
WakeHidden ==
    /\ wake.visible
    /\ LET w1 == [wake EXCEPT !.visible = FALSE, !.held = {}]
       IN WakeStep(IF wake.cancelled THEN w1 ELSE release(w1))

\* The document becomes visible: onVisibility runs (lines 44-50).
WakeVisible ==
    /\ ~wake.visible
    /\ LET w1 == [wake EXCEPT !.visible = TRUE]
       IN WakeStep(IF wake.cancelled THEN w1 ELSE request(w1))

\* Line 52: onPageShow.
WakePageShow == ~wake.cancelled /\ WakeStep(request(wake))

\* Line 53: onPageHide.
WakePageHide == ~wake.cancelled /\ WakeStep(release(wake))

\* The platform releases a lock of a visible document on its own.
WakeSystemRelease ==
    \E id \in wake.held : WakeStep(ReleaseSentinel(wake, id))

\* Lines 70-76: the effect's cleanup.
WakeCleanup ==
    /\ ~wake.cancelled
    /\ WakeStep(release([wake EXCEPT !.cancelled = TRUE]))

WakeSettle == WakeGranted \/ WakeDenied

NextWake ==
    \/ WakeGranted \/ WakeDenied \/ WakeHidden \/ WakeVisible \/ WakePageShow
    \/ WakePageHide \/ WakeSystemRelease \/ WakeCleanup

SpecWake == InitWake /\ [][NextWake]_vars

\* Every request the hook has made is settled by the platform.
SpecWakeFair == SpecWake /\ WF_vars(WakeSettle)

C24_AtMostOneSentinel ==
    /\ Cardinality(wake.held) <= 1
    /\ \A id \in wake.held : wake.sentinelRef = id

\* C25: after the cleanup no new request is issued, every sentinel the hook
\* acquired is eventually released, the one of a request pending at cleanup
\* included, and sentinelRef ends up null.
C25_NoRequestAfterCleanup ==
    [][wake.cancelled => wake'.issued = wake.issued]_vars

C25_AllReleased == wake.cancelled ~> (wake.held = {} /\ wake.sentinelRef = 0)

C25_CleanupReleasesAll == C25_NoRequestAfterCleanup /\ C25_AllReleased

-----------------------------------------------------------------------------
(* Mic control of VisualizerPro:                                           *)
(* src/src/components/VisualizerPro.tsx lines 1173-1346 and 2403-2410      *)
(*                                                                         *)
(* The analyser was started by the parent, so its node and AudioContext    *)
(* exist.  mic is a record:                                                *)
(*   ctx        ctx.state: "running" or "suspended"                        *)
(*   queue      resume() / suspend() calls the context has not carried out *)
(*              yet, oldest first, each with the id of the call awaiting   *)
(*   micActive  React state micActive                                      *)
(*   forcedOff  userForcedOffRef.current                                   *)
(*   stash      analyser.mediaStream as getCurrentStream() finds it:       *)
(*              "none", "live" or "dead" (tracks stopped)                  *)
(*   calls      the async calls in flight, by id: kind, pc (the await the  *)
(*              call is at) and tog: "none" when no toggleMic is waiting   *)
(*              for the call, "cur" when the toggleMic that waits for it   *)
(*              belongs to the current render, "old" when to an earlier    *)
(*              one                                                        *)
(*   issued     number of async calls made so far                          *)
(* A context carries out its control messages in order and changes state   *)
(* when it resolves the promise; the code after an await runs in the same  *)
(* task as the resolution.                                                 *)

MaxMicCalls == 4

NoCalls == [id \in {} |-> Null]

Without(calls, id) == [k \in DOMAIN calls \ {id} |-> calls[k]]

\* An async call begins.
Enter(m, kind, tog) ==
    LET id == m.issued + 1
    IN [m EXCEPT !.issued = id,
                 !.calls = [k \in DOMAIN m.calls \cup {id} |->
                              IF k = id THEN [kind |-> kind, pc |-> "run",
                                              tog |-> tog]
                              ELSE m.calls[k]]]

\* await ctx.resume() or await ctx.suspend(): the call waits at label.
Await(m, id, label, op) ==
    [m EXCEPT !.calls[id].pc = label,
              !.queue = Append(@, [op |-> op, id |-> id])]

\* streamAlive(getCurrentStream()), lines 1205-1224.
StreamAlive(m) == m.stash = "live"

\* The call is over; the toggleMic that waited for it clears its
\* togglingRef (lines 1321-1323).
Return(m, id) == [m EXCEPT !.calls = Without(@, id)]

\* Lines 1281-1300: resumeAudio from step 4 on.
ResumeFinish(m, id) ==
    Return([m EXCEPT !.micActive = (m.ctx = "running" /\ StreamAlive(m))], id)

\* Lines 1268-1277: resumeAudio, step 3.
ResumeFallback(m, id) ==
    IF ~StreamAlive(m)
    THEN [m EXCEPT !.calls[id].pc = "getUserMedia"]
    ELSE ResumeFinish(m, id)

\* Lines 1256-1266: resumeAudio, step 2; the analyser's start() returns
\* its analyser and awaits ctx.resume() (part_004 lines 51-56).
ResumeRevive(m, id) ==
    IF ~StreamAlive(m)
    THEN Await(m, id, "start", "resume")
    ELSE ResumeFinish(m, id)

\* Lines 1240-1254: resumeAudio up to its first await.
resumeAudio(m, tog) ==
    LET m1 == Enter(m, "resumeAudio", tog)
    IN IF m.ctx # "running"
       THEN Await(m1, m1.issued, "resume", "resume")
       ELSE ResumeRevive(m1, m1.issued)

\* Lines 1184-1196: stopMicSafely after the suspend.
StopFinish(m, id) ==
    Return([m EXCEPT !.stash = IF @ = "live" THEN "dead" ELSE @,
                     !.micActive = FALSE], id)

\* Lines 1173-1182: stopMicSafely up to its await.
stopMicSafely(m, tog) ==
    LET m1 == Enter(m, "stopMicSafely", tog)
    IN IF m.ctx # "suspended"
       THEN Await(m1, m1.issued, "suspend", "suspend")
       ELSE StopFinish(m1, m1.issued)

\* Lines 1231: suspendAudio after the suspend.
SuspendFinish(m, id) == Return([m EXCEPT !.micActive = FALSE], id)

\* Lines 1226-1230: suspendAudio up to its await.
suspendAudio(m) ==
    LET m1 == Enter(m, "suspendAudio", "none")
    IN IF m.ctx # "suspended"
       THEN Await(m1, m1.issued, "suspend", "suspend")
       ELSE SuspendFinish(m1, m1.issued)

\* Line 1304 and 1307: togglingRef is an object made anew by every render;
\* a click reads the one of the render it was made in.
Toggling(m) == \E id \in DOMAIN m.calls : m.calls[id].tog = "cur"

\* Lines 1306-1324: toggleMic.
toggleMic(m) ==
    IF Toggling(m) THEN m
    ELSE IF m.ctx # "suspended"
    THEN stopMicSafely([m EXCEPT !.forcedOff = TRUE], "cur")
    ELSE resumeAudio([m EXCEPT !.forcedOff = FALSE], "cur")

\* Lines 1328-1333: onShown.
onShown(m) ==
    IF ~m.forcedOff THEN resumeAudio(m, "none")
    ELSE [m EXCEPT !.micActive = FALSE]

\* The code that follows the await of call id, once the context has
\* carried out the call's control message.
AfterControl(m, id) ==
    LET c == m.calls[id]
    IN IF c.kind = "resumeAudio" /\ c.pc = "resume"
       THEN ResumeRevive(m, id)
       ELSE IF c.kind = "resumeAudio"
       THEN ResumeFallback(m, id)
       ELSE IF c.kind = "stopMicSafely"
       THEN StopFinish(m, id)
       ELSE SuspendFinish(m, id)

\* Lines 1112, 1157: the component has mounted over a running analyser.
InitMic ==
    /\ mic = [ctx |-> "running", queue |-> <<>>, micActive |-> TRUE,
              forcedOff |-> FALSE, stash |-> "none", calls |-> NoCalls,
              issued |-> 0]
    /\ IdleCore /\ IdleSparks /\ IdleWake /\ IdleHook /\ IdleRaf

MicStep(m) ==
    /\ mic' = m
    /\ UNCHANGED <<coreVars, sparkVars, wakeVars, hookVars, rafVars>>

\* Lines 2403-2410: a click on the Stop Mic / Start Mic button.
MicClick ==
    /\ mic.issued < MaxMicCalls
    /\ MicStep(toggleMic(mic))

\* Line 1393: setFps re-renders the component; the button's handler and
\* togglingRef are those of the new render.
MicRender ==
    /\ Toggling(mic)
    /\ MicStep([mic EXCEPT !.calls =
                   [id \in DOMAIN mic.calls |->
                      IF mic.calls[id].tog = "cur"
                      THEN [mic.calls[id] EXCEPT !.tog = "old"]
                      ELSE mic.calls[id]]])

\* Lines 1327, 1335-1338: the tab is hidden or the window loses focus.
MicHidden ==
    /\ mic.issued < MaxMicCalls
    /\ MicStep(suspendAudio(mic))

\* Lines 1328-1339: the tab is shown or the window gets focus.
MicShown ==
    /\ mic.issued < MaxMicCalls
    /\ MicStep(onShown(mic))

\* The context carries out its oldest control message and resolves it.
MicControlDone ==
    /\ mic.queue # <<>>
    /\ LET h == Head(mic.queue)
           m == [mic EXCEPT !.queue = Tail(@),
                            !.ctx = IF h.op = "resume" THEN "running"
                                    ELSE "suspended"]
       IN MicStep(AfterControl(m, h.id))

\* Line 1271: navigator.mediaDevices.getUserMedia resolves.
MicStreamGranted ==
    \E id \in DOMAIN mic.calls :
       /\ mic.calls[id].pc = "getUserMedia"
       /\ MicStep(ResumeFinish([mic EXCEPT !.stash = "live"], id))

\* Lines 1273-1276: getUserMedia rejects.
MicStreamDenied ==
    \E id \in DOMAIN mic.calls :
       /\ mic.calls[id].pc = "getUserMedia"
       /\ MicStep(SuspendFinish(mic, id))

NextMic ==
    \/ MicClick \/ MicRender \/ MicHidden \/ MicShown \/ MicControlDone
    \/ MicStreamGranted \/ MicStreamDenied

SpecMic == InitMic /\ [][NextMic]_vars

\* C26: at most one toggleMic invocation is in its stop/resume sequence at
\* any time, re-renders or not: a click that arrives while an earlier
\* toggleMic is awaiting has no effect.
C26_OneToggleAtATime ==
    Cardinality({id \in DOMAIN mic.calls : mic.calls[id].tog # "none"}) <= 1

\* C27: once the user has stopped the microphone through toggleMic and
\* until the user toggles it on again, the audio context is suspended and
\* micActive is false, whatever events arrive and whatever resumeAudio call
\* was in flight when Stop was pressed.
C27_StaysOff ==
    (/\ mic.forcedOff
     /\ \A id \in DOMAIN mic.calls : mic.calls[id].kind # "stopMicSafely")
        => (mic.ctx = "suspended" /\ ~mic.micActive)

-----------------------------------------------------------------------------
(* The hook useMicAnalyser: src/unnamed/part_004 lines 20-91, called by    *)
(* App (src/src/App.tsx lines 17-39).                                      *)
(*                                                                         *)
(* hook is a record:                                                       *)
(*   streamRef  streamRef.current: 0 for null, else the stream's number    *)
(*   built      whether ctxRef.current and analyserRef.current are set     *)
(*   ready      React state ready                                          *)
(*   obtained   number of MediaStreams getUserMedia has handed out; the    *)
(*              streams are numbered 1..obtained                           *)
(*   live       the streams whose tracks have not been stopped             *)
(*   waiting    the start() calls in flight, by number: the await each is  *)
(*              at, "getUserMedia" or "resume"                             *)
(*   started    number of start() calls made so far                        *)
(*   lastCall   the last call made on the hook: "none", "start" or "stop"  *)

MaxHookStarts == 3

\* Line 30: the guard of getOrCreate.
HasGraph(h) == h.built /\ h.streamRef # 0

\* Lines 51-54 and 29-31: start() up to its first await that waits for the
\* platform.
start(h) ==
    LET id == h.started + 1
    IN [h EXCEPT !.started = id,
                 !.lastCall = "start",
                 !.waiting = [k \in DOMAIN h.waiting \cup {id} |->
                                IF k # id THEN h.waiting[k]
                                ELSE IF HasGraph(h) THEN "resume"
                                ELSE "getUserMedia"]]

\* Lines 35-48 and 54: getUserMedia has resolved with a new stream;
\* getOrCreate stores it and start() awaits ctx.resume().
getOrCreate(h, id) ==
    LET stream == h.obtained + 1
    IN [h EXCEPT !.obtained = stream,
                 !.live = @ \cup {stream},
                 !.streamRef = stream,
                 !.built = TRUE,
                 !.ready = TRUE,
                 !.waiting[id] = "resume"]

\* Lines 57-60: getUserMedia has rejected.
StartFailed(h, id) ==
    [h EXCEPT !.ready = FALSE, !.waiting = Without(@, id)]

\* Lines 55-56: ctx.resume() has resolved.
StartDone(h, id) ==
    [h EXCEPT !.ready = TRUE, !.waiting = Without(@, id)]

\* Lines 63-71: stop().
stop(h) ==
    [h EXCEPT !.live = IF h.streamRef # 0 THEN @ \ {h.streamRef} ELSE @,
              !.streamRef = 0,
              !.ready = FALSE,
              !.lastCall = "stop"]

\* Lines 24-27: the hook's refs after the first render.
InitHook ==
    /\ hook = [streamRef |-> 0, built |-> FALSE, ready |-> FALSE,
               obtained |-> 0, live |-> {}, waiting |-> NoCalls,
               started |-> 0, lastCall |-> "none"]
    /\ IdleCore /\ IdleSparks /\ IdleWake /\ IdleMic /\ IdleRaf

HookStep(h) ==
    /\ hook' = h
    /\ UNCHANGED <<coreVars, sparkVars, wakeVars, micVars, rafVars>>

\* App.tsx lines 17-22 and 32-35: the autostart effect or the Start button.
HookStart ==
    /\ hook.started < MaxHookStarts
    /\ HookStep(start(hook))

\* App.tsx lines 36-39: the Stop button.
HookStop == HookStep(stop(hook)) /\ hook # Null

\* Line 31: getUserMedia resolves for one of the waiting calls.
HookStreamGranted ==
    \E id \in DOMAIN hook.waiting :
       /\ hook.waiting[id] = "getUserMedia"
       /\ HookStep(getOrCreate(hook, id))

\* Line 31: getUserMedia rejects for one of the waiting calls.
HookStreamDenied ==
    \E id \in DOMAIN hook.waiting :
       /\ hook.waiting[id] = "getUserMedia"
       /\ HookStep(StartFailed(hook, id))

\* Line 54: ctx.resume() resolves for one of the waiting calls.
HookResumed ==
    \E id \in DOMAIN hook.waiting :
       /\ hook.waiting[id] = "resume"
       /\ HookStep(StartDone(hook, id))

NextHook ==
    \/ HookStart \/ HookStop \/ HookStreamGranted \/ HookStreamDenied
    \/ HookResumed

SpecHook == InitHook /\ [][NextHook]_vars

\* C28: every stream the hook obtained is the one streamRef holds or has
\* its tracks stopped, and when stop() was the last call and no start() is
\* waiting any more, no track is live.
C28_NoOrphanedStream ==
    /\ \A stream \in hook.live : stream = hook.streamRef
    /\ (hook.lastCall = "stop" /\ DOMAIN hook.waiting = {}) => hook.live = {}

-----------------------------------------------------------------------------
(* The frame loop of the classic Visualizer: src/unnamed/part_001 lines    *)
(* 47-131 (src/unnamed/part_002 lines 28-80 is the same effect).           *)
(*                                                                         *)
(* raf is a record:                                                        *)
(*   visible    document.visibilityState === "visible"                     *)
(*   mounted    whether the effect's listeners are registered              *)
(*   rafRef     rafRef.current: 0 for null, else a request's number        *)
(*   pending    the animation-frame requests neither run nor cancelled     *)
(*   requested  number of requestAnimationFrame calls made so far          *)
(*   stopped    whether cancel() ran after the last start of loop() by     *)
(*              the effect or by onVis                                     *)
(*   frames     number of loop iterations animation frames have run        *)
(* The browser runs animation-frame callbacks of a visible document only.  *)

MaxRafRequests == 5

\* Lines 67-119: loop() draws and requests the next frame.
loop(r) ==
    LET id == r.requested + 1
    IN [r EXCEPT !.requested = id,
                 !.pending = @ \cup {id},
                 !.rafRef = id]

\* Lines 121-124: cancel().
cancel(r) ==
    [r EXCEPT !.pending = IF r.rafRef # 0 THEN @ \ {r.rafRef} ELSE @,
              !.rafRef = 0,
              !.stopped = TRUE]

\* Lines 58-61: onVis.
onVis(r) ==
    IF ~r.visible THEN cancel(r)
    ELSE [loop(r) EXCEPT !.stopped = FALSE]

\* Lines 47-125: the effect has run once; the document may be in the
\* background.
InitRaf ==
    /\ \E visible \in BOOLEAN :
          raf = [loop([visible |-> visible, mounted |-> TRUE, rafRef |-> 0,
                       pending |-> {}, requested |-> 0, stopped |-> FALSE,
                       frames |-> 0])
                 EXCEPT !.stopped = FALSE]
    /\ IdleCore /\ IdleSparks /\ IdleWake /\ IdleMic /\ IdleHook

RafStep(r) ==
    /\ r.requested <= MaxRafRequests
    /\ raf' = r
    /\ UNCHANGED <<coreVars, sparkVars, wakeVars, micVars, hookVars>>

\* The browser runs the callback of a pending request.
RafFrame ==
    \E id \in raf.pending :
       /\ raf.visible
       /\ RafStep(loop([raf EXCEPT !.pending = @ \ {id},
                                   !.frames = @ + 1]))

\* Line 64: visibilitychange, the document is now hidden.
RafHidden ==
    /\ raf.visible
    /\ LET r == [raf EXCEPT !.visible = FALSE]
       IN RafStep(IF raf.mounted THEN onVis(r) ELSE r)

\* Line 64: visibilitychange, the document is now visible.
RafVisible ==
    /\ ~raf.visible
    /\ LET r == [raf EXCEPT !.visible = TRUE]
       IN RafStep(IF raf.mounted THEN onVis(r) ELSE r)

\* Lines 126-131 and 125: a dependency of the effect changed; the cleanup
\* runs and the effect runs again.
RafRerun ==
    /\ raf.mounted
    /\ RafStep([loop(cancel(raf)) EXCEPT !.stopped = FALSE])

\* Lines 126-130: the component unmounts.
RafUnmount ==
    /\ raf.mounted
    /\ RafStep([cancel(raf) EXCEPT !.mounted = FALSE])

NextRaf == RafFrame \/ RafHidden \/ RafVisible \/ RafRerun \/ RafUnmount

SpecRaf == InitRaf /\ [][NextRaf]_vars

\* C29: at most one animation-frame request of the loop is pending at any
\* time, and once cancel() has run no loop iteration runs until loop() is
\* started again.
C29_QuietStep == raf.stopped => raf'.frames = raf.frames

C29_SingleLoopChain ==
    /\ [](Cardinality(raf.pending) <= 1)
    /\ [][C29_QuietStep]_vars

=============================================================================
